---- MODULE Spec2Model ----
(***************************************************************************)
(* A model of one run of cmgen (src/tools/cmgen/src/cmgen.cpp): option     *)
(* parsing, the construction of the base cubemap, the mip chain, and the   *)
(* SH / IBL / extraction stages with the files and KTX containers they     *)
(* write.  Pixel values are not modelled; sizes, counts, orders, names and *)
(* exit paths are.                                                         *)
(***************************************************************************)
EXTENDS Integers, Sequences, FiniteSets, TLC

\* ------------------------------------------------------------------ bounds

\* Number of options on the command line.
MaxArgs == 4
\* Largest width and height of a decoded input image (besides the larger ones InputSizes names).
MaxDim == 4
\* Largest band count given to --sh.
MaxBands == 3
\* Largest exponent of a --size value.
MaxExp == 2

\* ------------------------------------------------------- program constants

DFG_LUT_DEFAULT_SIZE == 128
IBL_DEFAULT_SIZE == 256
DEFAULT_NUM_SAMPLES == 1024
DEFAULT_SH_BANDS == 3

\* ----------------------------------------------------------------- helpers

\* isPOT of the math library, on the positive sizes the model draws.
RECURSIVE isPOT(_)
isPOT(x) == IF x = 1 THEN TRUE ELSE x > 1 /\ x % 2 = 0 /\ isPOT(x \div 2)

\* __builtin_ctz on a non-zero argument.
RECURSIVE ctz(_)
ctz(x) == IF x % 2 = 1 THEN 0 ELSE 1 + ctz(x \div 2)

RECURSIVE Pow2(_)
Pow2(k) == IF k = 0 THEN 1 ELSE 2 * Pow2(k - 1)

Faces == <<"px", "nx", "py", "ny", "pz", "nz">>

\* A path: the directory argument, the input's basename when the file lies
\* in <dir>/<basename>, and the pieces of the file name.
Path(dir, sub, name) == [dir |-> dir, sub |-> sub, name |-> name]

\* An option as getopt_long hands it to the switch: the option character and
\* its argument, as text (arg) or as the number std::stoul/stoi/stod reads
\* from it (num; blur in hundredths).
Option(o, a, n) == [opt |-> o, arg |-> a, num |-> n]

\* ------------------------------------------------------------------- state

VARIABLES
    pc,          \* position in main
    optind,      \* number of options getopt_long has consumed
    num_args,    \* argc - option_index
    g,           \* the g_* globals
    loc,         \* locals of handleCommandLineArgments
    iname,       \* the input path: its basename and whether the file exists
    input,       \* width and height of the decoded input image
    images,      \* std::vector<Image> images
    levels,      \* std::vector<Cubemap> levels
    nextImage,   \* number of Images allocated so far
    loop,        \* locals of the running loop (generateMipmaps, prefilter)
    container,   \* the KtxBundle of iblRoughnessPrefilter
    files,       \* files written so far
    ktx,         \* the KTX containers serialized so far
    shout,       \* coefficient lines outputSh wrote to std::cout
    shtext,      \* coefficient lines outputSh wrote to the SH text file
    renders,     \* which coefficients were rendered by which function
    stages,      \* the stages executed so far, in order
    exitCode,    \* -1 while running, else the process's exit status
    err,         \* what was reported when the run was aborted
    created,     \* the cubemaps CubemapUtils::create made, in order
    writable     \* whether the output directories can be written to

vars == <<pc, optind, num_args, g, loc, iname, input, images, levels, nextImage,
          loop, container, files, ktx, shout, shtext, renders, stages, exitCode,
          err, created, writable>>

NoPath == [dir |-> "", sub |-> <<>>, name |-> <<>>]
NoInput == [width |-> 0, height |-> 0]
NoName == [name |-> <<>>, exists |-> FALSE]
NoLoop == [dim |-> 0, mipLevel |-> 0, i |-> 0, numSamples |-> 0, log |-> <<>>]
NoContainer == [numMips |-> 0]
NoCoefficients == [kind |-> "none", count |-> 0, irradiance |-> FALSE]

InitGlobals ==
    [ g_format |-> "PNG", g_type |-> "FACES", g_compression |-> "",
      g_extract_faces |-> FALSE, g_extract_blur |-> 0, g_extract_dir |-> "",
      g_output_size |-> 0, g_quiet |-> FALSE, g_debug |-> FALSE,
      g_sh_compute |-> 0, g_sh_output |-> FALSE, g_sh_shader |-> FALSE,
      g_sh_irradiance |-> FALSE, g_sh_file |-> "SH_NONE", g_sh_filename |-> NoPath,
      g_coefficients |-> NoCoefficients,
      g_is_mipmap |-> FALSE, g_is_mipmap_dir |-> "",
      g_prefilter |-> FALSE, g_prefilter_dir |-> "",
      g_dfg |-> FALSE, g_dfg_filename |-> NoPath, g_dfg_multiscatter |-> FALSE,
      g_ibl_irradiance |-> FALSE, g_ibl_irradiance_dir |-> "",
      g_deploy |-> FALSE, g_deploy_dir |-> "",
      g_num_samples |-> DEFAULT_NUM_SAMPLES, g_mirror |-> FALSE ]

InitLocals ==
    [ num_sh_bands |-> DEFAULT_SH_BANDS, format_specified |-> FALSE,
      type_specified |-> FALSE, ktx_format_requested |-> FALSE,
      argv |-> {} ]

\* The state main starts in; w says whether the directories the run is told
\* to write to can be written to.
Start(w) ==
    /\ pc = "parse"
    /\ optind = 0
    /\ num_args = 0
    /\ g = InitGlobals
    /\ loc = InitLocals
    /\ iname = NoName
    /\ input = NoInput
    /\ images = <<>>
    /\ levels = <<>>
    /\ nextImage = 0
    /\ loop = NoLoop
    /\ container = NoContainer
    /\ files = {}
    /\ ktx = <<>>
    /\ shout = <<>>
    /\ shtext = <<>>
    /\ renders = {}
    /\ stages = <<>>
    /\ exitCode = -1
    /\ err = ""
    /\ created = <<>>
    /\ writable = w

Init == Start(TRUE)

\* exit(code): the process ends where it stands.
Exit(code, what) ==
    /\ pc' = "exit"
    /\ exitCode' = code
    /\ err' = what

\* ------------------------------------------------- handleCommandLineArgments

\* The extension of a file name argument.
Extension(fname) ==
    CASE fname = "sh.txt" -> "txt"
      [] fname = "sh.hdr" -> "hdr"
      [] fname = "dfg.h" -> "h"
      [] fname = "dfg.inc" -> "inc"
      [] fname = "dfg.png" -> "png"
      [] OTHER -> ""

\* Variant of OptionExits that accepts every --size: C19 depends on the
\* power-of-two test.
OptionExits_AnySize(o) ==
    \/ o.opt \in {"h", "l", "?"}
    \/ o.opt = "r" /\ (o.num < 0 \/ o.num > 100)

\* The options that end the run inside the switch.
OptionExits(o) ==
    \/ o.opt \in {"h", "l", "?"}
    \/ o.opt = "s" /\ ~isPOT(o.num)
    \/ o.opt = "r" /\ (o.num < 0 \/ o.num > 100)

OptionError(o) ==
    CASE o.opt = "s" -> "output size must be a power of two"
      [] o.opt = "r" -> "roughness (blur) parameter must be between 0.0 and 1.0"
      [] o.opt = "l" -> "license"
      [] OTHER -> "usage"

\* The switch of the option loop, on the globals.
OptionGlobals(gl, o) ==
    CASE o.opt = "q" -> [gl EXCEPT !.g_quiet = TRUE]
      [] o.opt = "t" ->
           [gl EXCEPT !.g_type =
               CASE o.arg = "cubemap" -> "FACES"
                 [] o.arg = "ktx" -> "KTX"
                 [] o.arg \in {"equirect", "equirectangular"} -> "EQUIRECT"
                 [] o.arg = "octahedron" -> "OCTAHEDRON"
                 [] OTHER -> @]
      [] o.opt = "f" ->
           [gl EXCEPT !.g_format =
               CASE o.arg = "png" -> "PNG"
                 [] o.arg = "hdr" -> "HDR"
                 [] o.arg = "rgbm" -> "RGBM"
                 [] o.arg = "exr" -> "EXR"
                 [] o.arg = "psd" -> "PSD"
                 [] o.arg = "dds" -> "DDS_LINEAR"
                 [] OTHER -> @]
      [] o.opt = "c" -> [gl EXCEPT !.g_compression = o.arg]
      [] o.opt = "s" -> [gl EXCEPT !.g_output_size = o.num]
      [] o.opt = "z" -> [gl EXCEPT !.g_sh_compute = 1, !.g_sh_output = TRUE]
      [] o.opt = "o" ->
           [gl EXCEPT !.g_sh_compute = 1, !.g_sh_output = TRUE,
                      !.g_sh_file = IF Extension(o.arg) = "txt"
                                    THEN "SH_TEXT" ELSE "SH_CROSS",
                      !.g_sh_filename = Path("", <<>>, <<o.arg>>)]
      [] o.opt = "i" -> [gl EXCEPT !.g_sh_compute = 1, !.g_sh_irradiance = TRUE]
      [] o.opt = "b" ->
           [gl EXCEPT !.g_sh_compute = 1, !.g_sh_irradiance = TRUE,
                      !.g_sh_shader = TRUE]
      [] o.opt = "e" -> [gl EXCEPT !.g_extract_dir = o.arg, !.g_extract_faces = TRUE]
      [] o.opt = "r" -> [gl EXCEPT !.g_extract_blur = o.num]
      [] o.opt = "y" -> [gl EXCEPT !.g_is_mipmap = TRUE, !.g_is_mipmap_dir = o.arg]
      [] o.opt = "p" -> [gl EXCEPT !.g_prefilter = TRUE, !.g_prefilter_dir = o.arg]
      [] o.opt = "P" ->
           [gl EXCEPT !.g_ibl_irradiance = TRUE, !.g_ibl_irradiance_dir = o.arg]
      [] o.opt = "a" -> [gl EXCEPT !.g_dfg = TRUE, !.g_dfg_filename = Path("", <<>>, <<o.arg>>)]
      [] o.opt = "u" -> [gl EXCEPT !.g_dfg_multiscatter = TRUE]
      [] o.opt = "k" -> [gl EXCEPT !.g_num_samples = o.num]
      [] o.opt = "x" -> [gl EXCEPT !.g_deploy = TRUE, !.g_deploy_dir = o.arg]
      [] o.opt = "d" -> [gl EXCEPT !.g_debug = TRUE]
      [] o.opt = "m" -> [gl EXCEPT !.g_mirror = TRUE]
      [] OTHER -> gl

\* The switch of the option loop, on the function's locals.  argv holds the
\* options getopt_long has returned so far.
OptionSwitch(lc, o) ==
    CASE o.opt = "t" ->
           [lc EXCEPT !.type_specified =
               @ \/ o.arg \in {"cubemap", "ktx", "equirect", "equirectangular",
                               "octahedron"}]
      [] o.opt = "f" ->
           [lc EXCEPT !.format_specified =
                          @ \/ o.arg \in {"png", "hdr", "rgbm", "exr", "psd", "dds",
                                          "ktx"},
                      !.ktx_format_requested = @ \/ o.arg = "ktx"]
      [] o.opt = "z" ->
           \* std::stoi throws std::invalid_argument on a missing argument
           [lc EXCEPT !.num_sh_bands = IF o.arg = "" THEN @ ELSE o.num]
      [] OTHER -> lc

OptionLocals(lc, o) == [OptionSwitch(lc, o) EXCEPT !.argv = @ \cup {o}]

\* Variant of AfterOptions in which an explicit --type wins over
\* --format=ktx: C15 depends on the override.
AfterOptions_TypeWins(gl, lc) ==
    LET g1 == IF lc.ktx_format_requested /\ ~lc.type_specified
              THEN [gl EXCEPT !.g_type = "KTX"] ELSE gl
        ts == lc.type_specified \/ lc.ktx_format_requested
        g2 == IF g1.g_deploy /\ ~ts THEN [g1 EXCEPT !.g_type = "FACES"] ELSE g1
        g3 == IF g2.g_deploy /\ ~lc.format_specified
              THEN [g2 EXCEPT !.g_format = "RGBM"] ELSE g2
    IN  IF lc.num_sh_bands # 0 /\ g3.g_sh_compute # 0
        THEN [g3 EXCEPT !.g_sh_compute = lc.num_sh_bands] ELSE g3

\* What follows the option loop, on the globals (lines 392-407).
AfterOptions(gl, lc) ==
    LET g1 == IF lc.ktx_format_requested THEN [gl EXCEPT !.g_type = "KTX"] ELSE gl
        ts == lc.type_specified \/ lc.ktx_format_requested
        g2 == IF g1.g_deploy /\ ~ts THEN [g1 EXCEPT !.g_type = "FACES"] ELSE g1
        g3 == IF g2.g_deploy /\ ~lc.format_specified
              THEN [g2 EXCEPT !.g_format = "RGBM"] ELSE g2
    IN  IF lc.num_sh_bands # 0 /\ g3.g_sh_compute # 0
        THEN [g3 EXCEPT !.g_sh_compute = lc.num_sh_bands] ELSE g3

\* The options the specification Spec draws command lines from.
Options ==
    { Option("t", "ktx", 0), Option("c", "astc_fast_ldr_4x4", 0),
      Option("c", "bogus", 0), Option("s", "", 3), Option("i", "", 0),
      Option("p", "ld", 0), Option("e", "ex", 0), Option("a", "dfg.h", 0),
      Option("d", "", 0) }
        \cup { Option("s", "", Pow2(k)) : k \in 0..MaxExp }
        \cup { Option("z", "n", n) : n \in 1..MaxBands }

\* One turn of the option loop.
ParseOption(o) ==
    /\ pc = "parse"
    /\ optind < MaxArgs
    /\ optind' = optind + 1
    /\ IF OptionExits(o)
       THEN /\ Exit(0, OptionError(o))
            /\ UNCHANGED <<g, loc>>
       ELSE /\ g' = OptionGlobals(g, o)
            /\ loc' = OptionLocals(loc, o)
            /\ UNCHANGED <<pc, exitCode, err>>
    /\ UNCHANGED <<writable, created, num_args, iname, input, images, levels, nextImage, loop,
                   container, files, ktx, shout, shtext, renders, stages>>

\* getopt_long returns -1: the rest of handleCommandLineArgments, which
\* returns optind; main computes num_args from it.
ParseEnd(n) ==
    /\ pc = "parse"
    /\ g' = AfterOptions(g, loc)
    /\ loc' = InitLocals
    /\ num_args' = n
    /\ pc' = "main"
    /\ UNCHANGED <<writable, created, optind, iname, input, images, levels, nextImage, loop,
                   container, files, ktx, shout, shtext, renders, stages, exitCode, err>>

\* ------------------------------------------------------------ files, saveImage

\* ImageEncoder::chooseExtension.
chooseExtension(format) ==
    CASE format = "PNG" -> ".png"
      [] format = "HDR" -> ".hdr"
      [] format = "RGBM" -> ".rgbm"
      [] format = "EXR" -> ".exr"
      [] format = "PSD" -> ".psd"
      [] format = "DDS_LINEAR" -> ".dds"
      [] OTHER -> ""

\* A run of saveImage calls on `paths`, in order, where the encoder fails at
\* call number failAt (0: it never fails).  saveImage opens (and so creates)
\* the file before encoding, and exits with status 1 when encoding fails.
saveImage(paths, failAt) ==
    LET fails == failAt >= 1 /\ failAt <= Len(paths)
        n == IF fails THEN failAt ELSE Len(paths)
    IN  [ok |-> ~fails, written |-> {paths[k] : k \in 1..n}]

\* Variant of FacePaths that leaves the stage tag out of the file names: C21
\* depends on the tag.
FacePaths_NoTag(dir, sub, prefix, ext) ==
    [j \in 1..6 |-> Path(dir, sub, <<Faces[j], ext>>)]

\* The six face files <prefix><face><ext> of one cubemap.
FacePaths(dir, sub, prefix, ext) ==
    [j \in 1..6 |-> Path(dir, sub, Append(prefix, Faces[j]) \o <<ext>>)]

\* --------------------------------------------------------------- main, part 1

\* The inputs a run is given: existing image files and names of no file.
InputNames ==
    { [name |-> <<"e", "n", "v">>, exists |-> TRUE],
      [name |-> <<"u", "v", "2">>, exists |-> FALSE],
      [name |-> <<"u", "3">>, exists |-> FALSE],
      [name |-> <<"v", "2">>, exists |-> FALSE],
      [name |-> <<"b", "r", "d", "f", "1">>, exists |-> FALSE],
      [name |-> <<"u", "v">>, exists |-> FALSE],
      [name |-> <<"s", "k", "y">>, exists |-> FALSE] }

\* The sizes of the decoded images.
InputSizes ==
    ((1..MaxDim) \X (1..MaxDim))
        \cup {<<512, 256>>, <<6, 3>>, <<12, 9>>, <<9, 12>>}

\* iblLutDfg: the LUT is computed, then written as text or as an image.
isTextFile(path) ==
    Extension(path.name[Len(path.name)]) \in {"h", "hpp", "c", "cpp", "inc", "txt"}

\* Variant of MainStart that wants an input name even with --ibl-dfg: C18
\* depends on the usage test looking at g_dfg.
MainStart_InputRequired(failAt) ==
    /\ pc = "main"
    /\ IF num_args < 1
       THEN /\ Exit(1, "usage")
            /\ UNCHANGED <<files, stages>>
       ELSE IF g.g_dfg
       THEN LET size == IF g.g_output_size # 0 THEN g.g_output_size
                        ELSE DFG_LUT_DEFAULT_SIZE
                saved == IF isTextFile(g.g_dfg_filename)
                         THEN [ok |-> TRUE,
                               written |-> IF writable THEN {g.g_dfg_filename}
                                           ELSE {}]
                         ELSE saveImage(<<g.g_dfg_filename>>, failAt)
            IN  /\ stages' = Append(stages, [stage |-> "dfg", dim |-> size])
                /\ files' = files \cup saved.written
                /\ IF ~saved.ok THEN Exit(1, "encode")
                   ELSE pc' = "setup" /\ UNCHANGED <<exitCode, err>>
       ELSE /\ pc' = "setup"
            /\ UNCHANGED <<files, stages, exitCode, err>>
    /\ UNCHANGED <<writable, created, optind, num_args, g, loc, iname, input, images,
                   levels, nextImage, loop, container, ktx, shout, shtext, renders>>

\* main up to the DFG LUT (lines 412-426).
MainStart(failAt) ==
    /\ pc = "main"
    /\ IF ~g.g_dfg /\ num_args < 1
       THEN /\ Exit(1, "usage")
            /\ UNCHANGED <<files, stages>>
       ELSE IF g.g_dfg
       THEN LET size == IF g.g_output_size # 0 THEN g.g_output_size
                        ELSE DFG_LUT_DEFAULT_SIZE
                saved == IF isTextFile(g.g_dfg_filename)
                         THEN [ok |-> TRUE,
                               written |-> IF writable THEN {g.g_dfg_filename}
                                           ELSE {}]
                         ELSE saveImage(<<g.g_dfg_filename>>, failAt)
            IN  /\ stages' = Append(stages, [stage |-> "dfg", dim |-> size])
                /\ files' = files \cup saved.written
                /\ IF ~saved.ok THEN Exit(1, "encode")
                   ELSE IF num_args < 1 THEN Exit(0, "")
                   ELSE pc' = "setup" /\ UNCHANGED <<exitCode, err>>
       ELSE /\ pc' = "setup"
            /\ UNCHANGED <<files, stages, exitCode, err>>
    /\ UNCHANGED <<writable, created, optind, num_args, g, loc, iname, input, images, levels,
                   nextImage, loop, container, ktx, shout, shtext, renders>>

\* Variant of Deploy that leaves the SH settings to the options: C17
\* depends on --deploy forcing them.
Deploy_KeepSh(gl, basename) ==
    IF gl.g_deploy
    THEN [gl EXCEPT !.g_extract_dir = gl.g_deploy_dir, !.g_extract_faces = TRUE,
                    !.g_prefilter = TRUE, !.g_prefilter_dir = gl.g_deploy_dir]
    ELSE gl

\* The --deploy and --debug settings (lines 428-456).
Deploy(gl, basename) ==
    IF gl.g_deploy
    THEN [gl EXCEPT !.g_sh_compute = 3, !.g_sh_shader = TRUE,
                    !.g_sh_irradiance = TRUE,
                    !.g_sh_filename = Path(gl.g_deploy_dir, basename, <<"sh.txt">>),
                    !.g_sh_file = "SH_TEXT", !.g_sh_output = TRUE,
                    !.g_extract_dir = gl.g_deploy_dir, !.g_extract_faces = TRUE,
                    !.g_prefilter = TRUE, !.g_prefilter_dir = gl.g_deploy_dir]
    ELSE gl

Debug(gl) ==
    IF gl.g_debug /\ gl.g_prefilter /\ ~gl.g_is_mipmap
    THEN [gl EXCEPT !.g_is_mipmap = TRUE, !.g_is_mipmap_dir = gl.g_prefilter_dir]
    ELSE gl

MainSetup(in) ==
    /\ pc = "setup"
    /\ iname' = in
    /\ g' = Debug(Deploy(g, in.name))
    /\ pc' = "input"
    /\ UNCHANGED <<writable, created, optind, num_args, loc, input, images, levels, nextImage, loop,
                   container, files, ktx, shout, shtext, renders, stages, exitCode, err>>

\* ----------------------------------------------------- main: the base cubemap

\* CubemapUtils::create(image, dim): a fresh Image, number id, and the
\* Cubemap that views it.
create(id, dim, content) ==
    [ image |-> [id |-> id, dim |-> dim],
      cubemap |-> [dim |-> dim, image |-> id, seamless |-> 0, mirrored |-> 0,
                   content |-> content, src |-> -1, srcSeamless |-> -1] ]

Content(kind, gx, gy) == [kind |-> kind, gx |-> gx, gy |-> gy]

BaseDim == IF g.g_output_size # 0 THEN g.g_output_size ELSE IBL_DEFAULT_SIZE

\* ImageDecoder::decode yields no valid image.
DecodeInvalid ==
    /\ pc = "input"
    /\ iname.exists
    /\ Exit(1, "Unable to open image")
    /\ UNCHANGED <<writable, created, optind, num_args, g, loc, iname, input, images, levels,
                   nextImage, loop, container, files, ktx, shout, shtext, renders, stages>>

\* The decoded image does not have 3 channels.
DecodeChannels(channels) ==
    /\ pc = "input"
    /\ iname.exists
    /\ channels # 3
    /\ Exit(1, "Input image must be RGB (3 channels)")
    /\ UNCHANGED <<writable, created, optind, num_args, g, loc, iname, input, images, levels,
                   nextImage, loop, container, files, ktx, shout, shtext, renders, stages>>

\* A valid 3-channel image of width w and height h is decoded, copied and
\* clamped (lines 464-488).
Decode(w, h) ==
    /\ pc = "input"
    /\ iname.exists
    /\ input' = [width |-> w, height |-> h]
    /\ stages' = Append(stages, [stage |-> "clamp", dim |-> 0])
    /\ pc' = "convert"
    /\ UNCHANGED <<writable, created, optind, num_args, g, loc, iname, images, levels, nextImage,
                   loop, container, files, ktx, shout, shtext, renders, exitCode, err>>

\* Variant of IsCross without the power-of-two test: C2 depends on it.
IsCross_AnySize(width, height) ==
    \/ width * 3 = height * 4
    \/ height * 3 = width * 4

\* Variant of IsEquirect that wants a power-of-two width: C4 depends on
\* the equirectangular test having none.
IsEquirect_PotOnly(width, height) == width = 2 * height /\ isPOT(width)

\* The layout test of lines 490-491 and 503.
IsCross(width, height) ==
    \/ isPOT(width) /\ width * 3 = height * 4
    \/ isPOT(height) /\ height * 3 = width * 4

IsEquirect(width, height) == width = 2 * height

\* Variant of Convert that allocates the cubemap before the layout test:
\* C3 depends on the test coming first.
Convert_AllocateFirst ==
    /\ pc = "convert"
    /\ LET width == input.width
           height == input.height
           kind == IF IsCross(width, height) THEN "crossToCubemap"
                   ELSE "equirectangularToCubemap"
           c == create(nextImage + 1, BaseDim, Content(kind, 0, 0))
       IN  /\ images' = Append(images, c.image)
           /\ levels' = Append(levels, c.cubemap)
           /\ nextImage' = nextImage + 1
           /\ created' = Append(created, [by |-> kind, dim |-> BaseDim])
           /\ IF IsCross(width, height) \/ IsEquirect(width, height)
              THEN /\ stages' = Append(stages, [stage |-> kind, dim |-> BaseDim])
                   /\ pc' = "mirror"
                   /\ UNCHANGED <<exitCode, err>>
              ELSE /\ Exit(0, "Aspect ratio not supported")
                   /\ UNCHANGED stages
    /\ UNCHANGED <<writable, optind, num_args, g, loc, iname, input, loop, container, files, ktx,
                   shout, shtext, renders>>

\* Lines 490-521: the cross or equirectangular image becomes the base
\* cubemap, or the run ends.
Convert ==
    /\ pc = "convert"
    /\ LET width == input.width
           height == input.height
       IN  IF IsCross(width, height) \/ IsEquirect(width, height)
           THEN LET kind == IF IsCross(width, height) THEN "crossToCubemap"
                            ELSE "equirectangularToCubemap"
                    c == create(nextImage + 1, BaseDim, Content(kind, 0, 0))
                IN  /\ images' = Append(images, c.image)
                    /\ levels' = Append(levels, c.cubemap)
                    /\ nextImage' = nextImage + 1
                    /\ created' = Append(created, [by |-> kind, dim |-> BaseDim])
                    /\ stages' = Append(stages, [stage |-> kind, dim |-> BaseDim])
                    /\ pc' = "mirror"
                    /\ UNCHANGED <<exitCode, err>>
           ELSE /\ Exit(0, "Aspect ratio not supported")
                /\ UNCHANGED <<images, levels, nextImage, stages, created>>
    /\ UNCHANGED <<writable, optind, num_args, g, loc, iname, input, loop, container, files, ktx,
                   shout, shtext, renders>>

DigitValue(c) ==
    CASE c = "0" -> 0 [] c = "1" -> 1 [] c = "2" -> 2 [] c = "3" -> 3
      [] c = "4" -> 4 [] c = "5" -> 5 [] c = "6" -> 6 [] c = "7" -> 7
      [] c = "8" -> 8 [] c = "9" -> 9 [] OTHER -> -1

\* The value of the longest run of digits that starts str.
RECURSIVE ScanDigits(_, _, _)
ScanDigits(str, k, acc) ==
    IF k > Len(str) \/ DigitValue(str[k]) < 0 THEN acc
    ELSE ScanDigits(str, k + 1, acc * 10 + DigitValue(str[k]))

\* sscanf(name, "<literal>%u", &p): the number of conversions made (-1 is
\* EOF: the input ended before the conversion) and the value stored in p.
sscanf(name, literal, p) ==
    LET n == Len(literal)
        mismatch == { k \in 1..n : k <= Len(name) /\ name[k] # literal[k] }
        first == IF mismatch = {} THEN n + 1
                 ELSE CHOOSE k \in mismatch : \A j \in mismatch : k <= j
    IN  IF first <= Len(name) /\ first <= n THEN [n |-> 0, p |-> p]
        ELSE IF Len(name) <= n THEN [n |-> -1, p |-> p]
        ELSE IF DigitValue(name[n + 1]) < 0 THEN [n |-> 0, p |-> p]
        ELSE [n |-> 1, p |-> ScanDigits(name, n + 1, 0)]

\* Variant of GeneratedContent with the uN and vN frequencies exchanged:
\* C10 depends on which axis each pattern sets.
GeneratedContent_Swapped(name) ==
    LET uv == sscanf(name, <<"u", "v">>, 0)
        u == sscanf(name, <<"u">>, uv.p)
        v == sscanf(name, <<"v">>, u.p)
        brdf == sscanf(name, <<"b", "r", "d", "f">>, v.p)
    IN  IF uv.n = 1 THEN Content("generateUVGrid", uv.p, uv.p)
        ELSE IF u.n = 1 THEN Content("generateUVGrid", 1, u.p)
        ELSE IF v.n = 1 THEN Content("generateUVGrid", v.p, 1)
        ELSE IF brdf.n = 1 THEN Content("brdf", brdf.p, 0)
        ELSE Content("generateUVGrid", 1, 1)

\* Lines 522-548: the input does not exist; the name chooses the pattern.
GeneratedContent(name) ==
    LET uv == sscanf(name, <<"u", "v">>, 0)
        u == sscanf(name, <<"u">>, uv.p)
        v == sscanf(name, <<"v">>, u.p)
        brdf == sscanf(name, <<"b", "r", "d", "f">>, v.p)
    IN  IF uv.n = 1 THEN Content("generateUVGrid", uv.p, uv.p)
        ELSE IF u.n = 1 THEN Content("generateUVGrid", u.p, 1)
        ELSE IF v.n = 1 THEN Content("generateUVGrid", 1, v.p)
        ELSE IF brdf.n = 1 THEN Content("brdf", brdf.p, 0)
        ELSE Content("generateUVGrid", 1, 1)

GenerateGrid ==
    /\ pc = "input"
    /\ ~iname.exists
    /\ LET c == create(nextImage + 1, BaseDim, GeneratedContent(iname.name))
       IN  /\ images' = Append(images, c.image)
           /\ levels' = Append(levels, c.cubemap)
           /\ nextImage' = nextImage + 1
           /\ created' = Append(created, [by |-> c.cubemap.content.kind,
                                          dim |-> BaseDim])
           /\ stages' = Append(stages, [stage |-> c.cubemap.content.kind,
                                        dim |-> BaseDim])
    /\ pc' = "mirror"
    /\ UNCHANGED <<writable, optind, num_args, g, loc, iname, input, loop, container,
                   files, ktx, shout, shtext, renders, exitCode, err>>

\* Variant of Mirror that takes g_mirror as it is named, without flipping
\* it: C16 depends on the flip.
Mirror_NoFlip ==
    /\ pc = "mirror"
    /\ IF g.g_mirror
       THEN LET c == create(nextImage + 1, levels[1].dim, levels[1].content)
                cml == [c.cubemap EXCEPT !.mirrored = levels[1].mirrored + 1]
            IN  /\ levels' = [levels EXCEPT ![1] = cml]
                /\ images' = [images EXCEPT ![1] = c.image]
                /\ nextImage' = nextImage + 1
                /\ created' = Append(created, [by |-> "mirror", dim |-> cml.dim])
                /\ stages' = Append(stages, [stage |-> "mirror", dim |-> cml.dim])
       ELSE UNCHANGED <<levels, images, nextImage, stages, created>>
    /\ pc' = "seamless"
    /\ UNCHANGED <<writable, g, optind, num_args, loc, iname, input, loop, container,
                   files, ktx, shout, shtext, renders, exitCode, err>>

\* Variant of Mirror that swaps the cubemap but not its image: C28 depends on
\* both swaps.
Mirror_LevelOnly ==
    /\ pc = "mirror"
    /\ g' = [g EXCEPT !.g_mirror = ~@]
    /\ IF g'.g_mirror
       THEN LET c == create(nextImage + 1, levels[1].dim, levels[1].content)
                cml == [c.cubemap EXCEPT !.mirrored = levels[1].mirrored + 1]
            IN  /\ levels' = [levels EXCEPT ![1] = cml]
                /\ images' = images
                /\ nextImage' = nextImage + 1
                /\ created' = Append(created, [by |-> "mirror", dim |-> cml.dim])
                /\ stages' = Append(stages, [stage |-> "mirror", dim |-> cml.dim])
       ELSE UNCHANGED <<levels, images, nextImage, stages, created>>
    /\ pc' = "seamless"
    /\ UNCHANGED <<writable, optind, num_args, loc, iname, input, loop, container, files,
                   ktx, shout, shtext, renders, exitCode, err>>

\* Lines 550-565: g_mirror is flipped, and the base level is replaced by its
\* mirror image unless --no-mirror was given.
Mirror ==
    /\ pc = "mirror"
    /\ g' = [g EXCEPT !.g_mirror = ~@]
    /\ IF g'.g_mirror
       THEN LET c == create(nextImage + 1, levels[1].dim, levels[1].content)
                cml == [c.cubemap EXCEPT !.mirrored = levels[1].mirrored + 1]
            IN  /\ levels' = [levels EXCEPT ![1] = cml]
                /\ images' = [images EXCEPT ![1] = c.image]
                /\ nextImage' = nextImage + 1
                /\ created' = Append(created, [by |-> "mirror", dim |-> cml.dim])
                /\ stages' = Append(stages, [stage |-> "mirror", dim |-> cml.dim])
       ELSE UNCHANGED <<levels, images, nextImage, stages, created>>
    /\ pc' = "seamless"
    /\ UNCHANGED <<writable, optind, num_args, loc, iname, input, loop, container, files,
                   ktx, shout, shtext, renders, exitCode, err>>

\* Variant of makeSeamless that leaves the cubemap as it is: C22 depends on
\* the seams being fixed.
makeSeamless_Skipped(cm) == cm

makeSeamless(cm) == [cm EXCEPT !.seamless = @ + 1]

\* Variant of MakeSeamless that goes on to the SH stage without the mip
\* chain: C20 depends on generateMipmaps coming before every later stage.
MakeSeamless_NoMipChain ==
    /\ pc = "seamless"
    /\ levels' = [levels EXCEPT ![1] = makeSeamless(@)]
    /\ stages' = Append(stages, [stage |-> "makeSeamless", dim |-> levels[1].dim])
    /\ loop' = NoLoop
    /\ pc' = "sh"
    /\ UNCHANGED <<writable, created, optind, num_args, g, loc, iname, input, images, nextImage,
                   container, files, ktx, shout, shtext, renders, exitCode, err>>

\* Lines 567-571 and 628-632: level 0 is made seamless and generateMipmaps
\* is entered.
MakeSeamless ==
    /\ pc = "seamless"
    /\ levels' = [levels EXCEPT ![1] = makeSeamless(@)]
    /\ stages' = Append(stages, [stage |-> "makeSeamless", dim |-> levels[1].dim])
    /\ loop' = [NoLoop EXCEPT !.dim = levels[1].dim, !.mipLevel = 0]
    /\ pc' = "mips"
    /\ UNCHANGED <<writable, created, optind, num_args, g, loc, iname, input, images, nextImage,
                   container, files, ktx, shout, shtext, renders, exitCode, err>>

\* One turn of the loop of generateMipmaps (lines 633-641).
downsampleCubemapLevelBoxFilter(dst, srcIndex) ==
    [dst EXCEPT !.src = srcIndex, !.srcSeamless = levels[srcIndex + 1].seamless]

\* Variant of MipDim that shrinks the edge by one: C1 depends on the halving.
MipDim_Decrement(dim) == dim - 1

MipDim(dim) == dim \div 2

GenerateMipmapLevel ==
    /\ pc = "mips"
    /\ loop.dim > 1
    /\ LET dim == MipDim(loop.dim)
           c == create(nextImage + 1, dim, levels[1].content)
           dst == makeSeamless(
                      downsampleCubemapLevelBoxFilter(c.cubemap, loop.mipLevel))
       IN  /\ loop' = [loop EXCEPT !.dim = dim, !.mipLevel = @ + 1]
           /\ images' = Append(images, c.image)
           /\ levels' = Append(levels, dst)
           /\ nextImage' = nextImage + 1
           /\ created' = Append(created, [by |-> "generateMipmaps", dim |-> dim])
    /\ UNCHANGED <<writable, pc, optind, num_args, g, loc, iname, input, container, files,
                   ktx, shout, shtext, renders, stages, exitCode, err>>

\* The loop of generateMipmaps ends and main goes on.
\* Variant of GenerateMipmapsDone in which the loop is not left when dim has
\* reached 1: C29 depends on the loop condition.
GenerateMipmapsDone_Stays ==
    /\ pc = "mips"
    /\ ~(loop.dim > 1)
    /\ UNCHANGED vars

GenerateMipmapsDone ==
    /\ pc = "mips"
    /\ ~(loop.dim > 1)
    /\ stages' = Append(stages, [stage |-> "generateMipmaps", dim |-> loop.mipLevel])
    /\ loop' = NoLoop
    /\ pc' = "sh"
    /\ UNCHANGED <<writable, created, optind, num_args, g, loc, iname, input, images, levels,
                   nextImage, container, files, ktx, shout, shtext, renders, exitCode, err>>

\* ------------------------------------------------------- spherical harmonics

\* CubemapSH::getShIndex(m, l).
getShIndex(m, l) == l * (l + 1) + m

computeSH(numBands, irradiance) ==
    [kind |-> "computeSH", count |-> numBands * numBands, irradiance |-> irradiance]

computeIrradianceSH3Bands ==
    [kind |-> "computeIrradianceSH3Bands", count |-> 9, irradiance |-> TRUE]

\* outputSh: one line per (l, m), l from 0 to numBands-1 and m from -l to l,
\* each the coefficient sh[getShIndex(m, l)].
RECURSIVE outputShFrom(_, _, _, _)
outputShFrom(sh, numBands, l, m) ==
    IF ~(l < numBands) THEN <<>>
    ELSE IF ~(m <= l) THEN outputShFrom(sh, numBands, l + 1, -(l + 1))
    ELSE <<[l |-> l, m |-> m, i |-> getShIndex(m, l), coeffs |-> sh.kind,
            irradiance |-> sh.irradiance,
            valid |-> getShIndex(m, l) < sh.count]>>
         \o outputShFrom(sh, numBands, l, m + 1)

\* Variant of outputSh that prints the lines last to first: C25 depends on
\* the order of the two loops.
outputSh_Backwards(sh, numBands) ==
    LET lines == outputShFrom(sh, numBands, 0, 0)
    IN  [n \in 1..Len(lines) |-> lines[Len(lines) + 1 - n]]

\* Variant of outputSh that starts at band 1: C9 depends on band 0.
outputSh_FromBand1(sh, numBands) == outputShFrom(sh, numBands, 1, -1)

outputSh(sh, numBands) == outputShFrom(sh, numBands, 0, 0)

\* Variant of RenderBy that always takes the general path: C12 depends on
\* the choice.
RenderBy_General(shader) == "renderSH"

\* The render function sphericalHarmonics picks (lines 667-671).
RenderBy(shader) == IF shader THEN "renderPreScaledSH3Bands" ELSE "renderSH"

\* One render call: the function, the coefficients it is given (by the
\* function that computed them, with the length of the array) and the number
\* of coefficients it reads from them.
Render(sh, by, numBands) ==
    [coeffs |-> sh.kind, by |-> by, count |-> sh.count,
     reads |-> IF by = "renderPreScaledSH3Bands" THEN 9 ELSE numBands * numBands]

\* Lines 573-579 and sphericalHarmonics.
StageSH(failAt) ==
    /\ pc = "sh"
    /\ IF g.g_sh_compute = 0
       THEN /\ pc' = "ismipmap"
            /\ UNCHANGED <<g, shout, shtext, renders, files, nextImage, stages,
                           exitCode, err, created>>
       ELSE LET sh == IF g.g_sh_shader THEN computeIrradianceSH3Bands
                      ELSE computeSH(g.g_sh_compute, g.g_sh_irradiance)
                withFile == g.g_sh_file # "SH_NONE"
                withImage == withFile \/ g.g_debug
                dir == g.g_sh_filename.dir
                sub == g.g_sh_filename.sub
                debug1 == Path(dir, sub, iname.name \o
                              <<"_sh", IF g.g_sh_irradiance THEN "_i" ELSE "_r", ".hdr">>)
                debug2 == Path(dir, sub, iname.name \o
                              <<"_sh", IF ~g.g_sh_irradiance THEN "_i" ELSE "_r", ".hdr">>)
                crossSave == IF g.g_sh_file = "SH_CROSS" THEN <<g.g_sh_filename>>
                             ELSE <<>>
                debugSave == IF g.g_debug THEN <<debug1, debug2>> ELSE <<>>
                saved == saveImage(crossSave \o debugSave, failAt)
                nSaved == Cardinality(saved.written)
                \* the second debug image is computed once the first is saved
                other == computeSH(g.g_sh_compute, ~g.g_sh_irradiance)
                recomputed == g.g_debug /\ (saved.ok \/ nSaved > Len(crossSave) + 1)
                render1 == IF withFile
                           THEN {Render(sh, RenderBy(g.g_sh_shader), g.g_sh_compute)}
                           ELSE {}
                render2 == IF recomputed
                           THEN {Render(other, "renderSH", g.g_sh_compute)} ELSE {}
                textWritten == g.g_sh_file = "SH_TEXT"
                dim == IF g.g_output_size # 0 THEN g.g_output_size
                       ELSE levels[1].dim
            IN  /\ stages' = Append(stages, [stage |-> "sphericalHarmonics",
                                             dim |-> g.g_sh_compute])
                /\ shout' = IF g.g_sh_output THEN shout \o outputSh(sh, g.g_sh_compute)
                            ELSE shout
                /\ nextImage' = IF withImage THEN nextImage + 1 ELSE nextImage
                /\ created' = IF withImage
                               THEN Append(created, [by |-> "sphericalHarmonics",
                                                     dim |-> dim])
                               ELSE created
                /\ renders' = renders \cup render1 \cup render2
                /\ shtext' = IF textWritten THEN outputSh(sh, g.g_sh_compute)
                             ELSE shtext
                /\ files' = files \cup saved.written
                               \cup (IF textWritten /\ writable THEN {g.g_sh_filename}
                                     ELSE {})
                /\ IF saved.ok
                   THEN /\ g' = [g EXCEPT !.g_coefficients =
                                     IF recomputed THEN other ELSE sh]
                        /\ pc' = "ismipmap"
                        /\ UNCHANGED <<exitCode, err>>
                   ELSE /\ Exit(1, "encode")
                        /\ UNCHANGED g
    /\ UNCHANGED <<writable, optind, num_args, loc, iname, input, images, levels, loop,
                   container, ktx>>

\* --------------------------------------------------------------- IBL stages

RECURSIVE Concat(_)
Concat(seqs) == IF seqs = <<>> THEN <<>> ELSE Head(seqs) \o Concat(Tail(seqs))

OutputDir(dir) == [dir |-> dir, sub |-> iname.name]

\* The files one cubemap is written to, by output type (the KTX type is
\* handled by the caller where it has a container).
CubemapPaths(dir, prefix, whole) ==
    LET ext == chooseExtension(g.g_format)
    IN  IF g.g_type \in {"EQUIRECT", "OCTAHEDRON"}
        THEN <<Path(dir, iname.name, whole \o <<ext>>)>>
        ELSE FacePaths(dir, iname.name, prefix, ext)

\* Lines 581-586 and iblMipmapPrefilter.
iblMipmapPrefilterPaths(dir) ==
    Concat([level \in 1..Len(levels) |->
        (IF g.g_debug
         THEN <<Path(dir, iname.name,
                     iname.name \o <<"_is_m", ToString(level - 1), ".hdr">>)>>
         ELSE <<>>)
        \o CubemapPaths(dir, <<"is_m", ToString(level - 1), "_">>,
                        <<"is_m", ToString(level - 1)>>)])

StageIsMipmap(failAt) ==
    /\ pc = "ismipmap"
    /\ IF ~g.g_is_mipmap
       THEN /\ pc' = "prefilter"
            /\ UNCHANGED <<files, stages, exitCode, err>>
       ELSE LET saved == saveImage(iblMipmapPrefilterPaths(g.g_is_mipmap_dir), failAt)
            IN  /\ stages' = Append(stages, [stage |-> "iblMipmapPrefilter",
                                             dim |-> Len(levels)])
                /\ files' = files \cup saved.written
                /\ IF saved.ok
                   THEN pc' = "prefilter" /\ UNCHANGED <<exitCode, err>>
                   ELSE Exit(1, "encode")
    /\ UNCHANGED <<writable, created, optind, num_args, g, loc, iname, input, images, levels,
                   nextImage, loop, container, ktx, shout, shtext, renders>>

\* ------------------------------------------------------------- KTX containers

\* KtxBundle::RGBA.
RGBA == 6408

\* KtxBundle(numMipLevels, arrayLength, isCubemap) with the info the caller
\* assigns (lines 811-822 and 1017-1028).
KtxBundle(numMips, dim) ==
    [ numMips |-> numMips, arrayLength |-> 1, numFaces |-> 6,
      info |-> [glTypeSize |-> 4, glFormat |-> RGBA, glInternalFormat |-> RGBA,
                glBaseInternalFormat |-> RGBA, pixelWidth |-> dim,
                pixelHeight |-> dim, pixelDepth |-> 0],
      blobs |-> <<>>, metadata |-> <<>> ]

setBlob(c, mip, layer, face, data, size) ==
    [c EXCEPT !.blobs = Append(@, [mip |-> mip, layer |-> layer, face |-> face,
                                   data |-> data, size |-> size])]

setMetadata(c, key, lines) ==
    [c EXCEPT !.metadata = Append(@, [key |-> key, lines |-> lines])]

\* parseOptionString: the compression strings the block compressors know.
parseOptionString(str) ==
    CASE str = "astc_fast_ldr_4x4" -> [valid |-> TRUE, type |-> "ASTC"]
      [] str = "s3tc_rgba_dxt5" -> [valid |-> TRUE, type |-> "S3TC"]
      [] str = "etc_rgba8_rgba_40" -> [valid |-> TRUE, type |-> "ETC"]
      [] OTHER -> [valid |-> FALSE, type |-> "INVALID"]

\* compressTexture: the size and the format tag of one compressed face.
compressTexture(type, dim) ==
    LET blocks == ((dim + 3) \div 4) * ((dim + 3) \div 4)
    IN  [size |-> blocks * 16,
         format |-> CASE type = "ASTC" -> 37808
                      [] type = "S3TC" -> 33779
                      [] OTHER -> 37496]

\* Variant of KtxFace that takes the Y faces first: C27 depends on the order
\* of the switch.
KtxFace_YFirst(j) ==
    CASE j = 0 -> "py" [] j = 1 -> "ny" [] j = 2 -> "px"
      [] j = 3 -> "nx" [] j = 4 -> "pz" [] OTHER -> "nz"

\* The cubemap face stored as face j of the container (lines 1112-1119).
KtxFace(j) ==
    CASE j = 0 -> "px" [] j = 1 -> "nx" [] j = 2 -> "py"
      [] j = 3 -> "ny" [] j = 4 -> "pz" [] OTHER -> "nz"

\* The faces loop of exportKtxFaces (lines 1109-1133), from face j on.
RECURSIVE exportFaces(_, _, _, _, _)
exportFaces(c, miplevel, dim, type, j) ==
    IF ~(j < 6) THEN c
    ELSE IF type # "INVALID"
    THEN LET tex == compressTexture(type, dim)
             c1 == setBlob(c, miplevel, 0, j, KtxFace(j), tex.size)
         IN  exportFaces([c1 EXCEPT !.info.glInternalFormat = tex.format],
                         miplevel, dim, type, j + 1)
    ELSE exportFaces(setBlob(c, miplevel, 0, j, KtxFace(j), dim * dim * 4),
                     miplevel, dim, type, j + 1)

\* Variant of CompressedInfo that leaves glFormat alone: C7 depends on it.
CompressedInfo_KeepFormat(info) ==
    [info EXCEPT !.glTypeSize = 1, !.glBaseInternalFormat = RGBA]

\* The header settings of a compressed container (lines 1104-1106).
CompressedInfo(info) ==
    [info EXCEPT !.glTypeSize = 1, !.glFormat = 0, !.glBaseInternalFormat = RGBA]

\* Variant of exportKtxFaces that stores every level's faces at mip 0: C5
\* depends on the level passed to setBlob.
exportKtxFaces_Level0(c, miplevel, dim) ==
    LET parsed == IF g.g_compression # "" THEN parseOptionString(g.g_compression)
                  ELSE [valid |-> TRUE, type |-> "INVALID"]
        c1 == IF g.g_compression # "" /\ parsed.valid
              THEN [c EXCEPT !.info = CompressedInfo(@)] ELSE c
    IN  IF ~parsed.valid THEN [ok |-> FALSE, container |-> c]
        ELSE [ok |-> TRUE,
              container |-> exportFaces(c1, 0, dim, parsed.type, 0)]

\* exportKtxFaces(container, miplevel, cm): the container it leaves, or the
\* exit on an unrecognized compression string.
exportKtxFaces(c, miplevel, dim) ==
    LET parsed == IF g.g_compression # "" THEN parseOptionString(g.g_compression)
                  ELSE [valid |-> TRUE, type |-> "INVALID"]
        c1 == IF g.g_compression # "" /\ parsed.valid
              THEN [c EXCEPT !.info = CompressedInfo(@)] ELSE c
    IN  IF ~parsed.valid THEN [ok |-> FALSE, container |-> c]
        ELSE [ok |-> TRUE,
              container |-> exportFaces(c1, miplevel, dim, parsed.type, 0)]

\* KtxBundle::getSerializedLength: the header, the metadata block, and per
\* mip level a length word and the blobs stored for the level.
RECURSIVE SumSizes(_)
SumSizes(blobs) ==
    IF blobs = <<>> THEN 0 ELSE Head(blobs).size + SumSizes(Tail(blobs))

RECURSIVE MetadataLength(_)
MetadataLength(md) ==
    IF md = <<>> THEN 0
    ELSE 8 + 32 * Len(Head(md).lines) + MetadataLength(Tail(md))

getSerializedLength(c) ==
    64 + MetadataLength(c.metadata) + 4 * c.numMips + SumSizes(c.blobs)

\* The tail of a KTX stage: a buffer of the length getSerializedLength()
\* gave for the container as it was then (sized), the container as it is
\* when serialize is called (c), and the write of the whole buffer.
SerializeKtx(sized, c, path) ==
    LET fileContents == getSerializedLength(sized)
    IN  [ path |-> path, container |-> c, allocations |-> 1,
          bufferLength |-> fileContents,
          serialized |-> getSerializedLength(c),
          written |-> IF writable THEN fileContents ELSE 0 ]

\* ------------------------------------------------------ iblRoughnessPrefilter

\* Lines 588-592 and 795-824: the stage is entered and the loop set up.
PrefilterBegin ==
    /\ pc = "prefilter"
    /\ IF ~g.g_prefilter
       THEN /\ pc' = "irradiance"
            /\ UNCHANGED <<loop, container, stages>>
       ELSE LET baseExp == ctz(BaseDim)
                numLevels == baseExp + 1
            IN  /\ container' = KtxBundle(numLevels, Pow2(baseExp))
                /\ loop' = [NoLoop EXCEPT !.i = baseExp,
                                          !.numSamples = g.g_num_samples]
                /\ stages' = Append(stages, [stage |-> "iblRoughnessPrefilter",
                                             dim |-> Pow2(baseExp)])
                /\ pc' = "prefilter_loop"
    /\ UNCHANGED <<writable, created, optind, num_args, g, loc, iname, input, images, levels,
                   nextImage, files, ktx, shout, shtext, renders, exitCode, err>>

\* Variant of LevelSamples that doubles from level 1 on: C24 depends on the
\* doubling starting at level 2.
LevelSamples_FromLevel1(level, numSamples) ==
    IF level >= 1 THEN numSamples * 2 ELSE numSamples

\* Lines 827-834: from level 2 on the number of samples doubles per level.
LevelSamples(level, numSamples) ==
    IF level >= 2 THEN numSamples * 2 ELSE numSamples

\* One turn of the loop over the levels (lines 824-891).
PrefilterLevel(failAt) ==
    /\ pc = "prefilter_loop"
    /\ loop.i >= 0
    /\ LET baseExp == ctz(BaseDim)
           numLevels == baseExp + 1
           dim == Pow2(loop.i)
           level == baseExp - loop.i
           numSamples == LevelSamples(level, loop.numSamples)
           dir == g.g_prefilter_dir
           debugSave ==
               IF g.g_debug
               THEN <<Path(dir, iname.name,
                           iname.name \o <<"_roughness_m", ToString(level), ".hdr">>)>>
               ELSE <<>>
           typeSave == IF g.g_type = "KTX" THEN <<>>
                       ELSE CubemapPaths(dir, <<"m", ToString(level), "_">>,
                                         <<"m", ToString(level)>>)
           saved == saveImage(debugSave \o typeSave, failAt)
           dst == makeSeamless(
                      create(nextImage + 1, dim, levels[1].content).cubemap)
           exported == exportKtxFaces(container, level, dim)
           entry == [level |-> level, dim |-> dim, lodNum |-> level,
                     lodDen |-> numLevels - 1, numSamples |-> numSamples,
                     seamless |-> dst.seamless, sources |-> Len(levels)]
       IN  /\ nextImage' = nextImage + 1
           /\ created' = Append(created, [by |-> "iblRoughnessPrefilter", dim |-> dim])
           /\ files' = files \cup saved.written
           /\ loop' = [loop EXCEPT !.i = @ - 1, !.numSamples = numSamples,
                                   !.log = Append(@, entry)]
           /\ IF ~saved.ok
              THEN Exit(1, "encode") /\ UNCHANGED container
              ELSE IF g.g_type = "KTX" /\ ~exported.ok
              THEN Exit(1, "Unrecognized compression") /\ UNCHANGED container
              ELSE /\ container' = IF g.g_type = "KTX" THEN exported.container
                                   ELSE container
                   /\ UNCHANGED <<pc, exitCode, err>>
    /\ UNCHANGED <<writable, optind, num_args, g, loc, iname, input, images, levels, ktx,
                   shout, shtext, renders, stages>>

\* Variant of ShMetadata that always writes three bands: C13 depends on the
\* band count of the writer's loops.
ShMetadata_ThreeBands(c) ==
    IF g.g_coefficients.kind # "none"
    THEN setMetadata(c, "sh", outputSh(g.g_coefficients, 3))
    ELSE c

\* The SH coefficients embedded in the container (lines 895-904).
ShMetadata(c) ==
    IF g.g_coefficients.kind # "none"
    THEN setMetadata(c, "sh", outputSh(g.g_coefficients, g.g_sh_compute))
    ELSE c

\* Variant of WriteIblKtx that sizes the buffer before the metadata is set:
\* C6 depends on the order.
WriteIblKtx_SizedEarly(c, path) == SerializeKtx(c, ShMetadata(c), path)

\* Lines 893-912: the metadata is set, then the buffer sized, the container
\* serialized and the file written.
WriteIblKtx(c, path) ==
    LET c1 == ShMetadata(c)
    IN  SerializeKtx(c1, c1, path)

\* Lines 1029-1036: the faces are exported, then the buffer sized, the
\* container serialized and the file written.
WriteSkyboxKtx(c, path) == SerializeKtx(c, c, path)

\* The loop has ended: the KTX container is written (lines 893-913).
PrefilterEnd ==
    /\ pc = "prefilter_loop"
    /\ ~(loop.i >= 0)
    /\ IF g.g_type = "KTX"
       THEN LET path == Path(g.g_prefilter_dir, iname.name,
                             iname.name \o <<"_ibl.ktx">>)
                out == WriteIblKtx(container, path)
            IN  /\ ktx' = Append(ktx, out)
                /\ files' = IF writable THEN files \cup {path} ELSE files
       ELSE UNCHANGED <<ktx, files>>
    /\ stages' = Append(stages, [stage |-> "iblRoughnessPrefilter done",
                                 dim |-> Len(loop.log)])
    /\ container' = NoContainer
    /\ loop' = NoLoop
    /\ pc' = "irradiance"
    /\ UNCHANGED <<writable, created, optind, num_args, g, loc, iname, input, images, levels,
                   nextImage, shout, shtext, renders, exitCode, err>>

\* ------------------------------------------------------- iblDiffuseIrradiance

\* Lines 595-600 and iblDiffuseIrradiance.
StageIrradiance(failAt) ==
    /\ pc = "irradiance"
    /\ IF ~g.g_ibl_irradiance
       THEN /\ pc' = "extract"
            /\ UNCHANGED <<files, nextImage, renders, stages, exitCode, err, created>>
       ELSE LET dir == g.g_ibl_irradiance_dir
                dim == Pow2(ctz(BaseDim))
                faces == FacePaths(dir, iname.name, <<"i_">>,
                                   chooseExtension(g.g_format))
                debugSave ==
                    IF g.g_debug
                    THEN <<Path(dir, iname.name,
                                iname.name \o <<"_diffuse_irradiance", ".hdr">>),
                           Path(dir, iname.name,
                                iname.name \o <<"_diffuse_irradiance_sh", ".hdr">>)>>
                    ELSE <<>>
                saved == saveImage(faces \o debugSave, failAt)
            IN  /\ stages' = Append(stages, [stage |-> "iblDiffuseIrradiance",
                                             dim |-> dim])
                /\ files' = files \cup saved.written
                /\ nextImage' = nextImage + (IF g.g_debug /\ saved.ok THEN 2 ELSE 1)
                /\ created' = created
                       \o <<[by |-> "iblDiffuseIrradiance", dim |-> dim]>>
                       \o (IF g.g_debug /\ saved.ok
                           THEN <<[by |-> "iblDiffuseIrradiance", dim |-> dim]>>
                           ELSE <<>>)
                /\ renders' = IF g.g_debug /\ saved.ok
                              THEN renders \cup
                                   {Render(computeSH(g.g_sh_compute, FALSE), "renderSH",
                                           g.g_sh_compute)}
                              ELSE renders
                /\ IF saved.ok
                   THEN pc' = "extract" /\ UNCHANGED <<exitCode, err>>
                   ELSE Exit(1, "encode")
    /\ UNCHANGED <<writable, optind, num_args, g, loc, iname, input, images, levels, loop,
                   container, ktx, shout, shtext>>

\* -------------------------------------------------------- extractCubemapFaces

\* Lines 602-625 and extractCubemapFaces; main then returns 0.
StageExtract(failAt) ==
    /\ pc = "extract"
    /\ IF ~g.g_extract_faces
       THEN /\ pc' = "done"
            /\ exitCode' = 0
            /\ UNCHANGED <<files, ktx, nextImage, stages, err, created>>
       ELSE LET blur == g.g_extract_blur # 0
                dim == IF blur /\ g.g_output_size # 0 THEN g.g_output_size
                       ELSE levels[1].dim
                dir == g.g_extract_dir
                ext == chooseExtension(g.g_format)
                exported == exportKtxFaces(KtxBundle(1, dim), 0, dim)
                path == Path(dir, iname.name, iname.name \o <<"_skybox.ktx">>)
                paths == IF g.g_type = "KTX" THEN <<>>
                         ELSE IF g.g_type \in {"EQUIRECT", "OCTAHEDRON"}
                         THEN <<Path(dir, iname.name, <<"skybox", ext>>)>>
                         ELSE FacePaths(dir, iname.name, <<>>, ext)
                saved == saveImage(paths, failAt)
            IN  /\ stages' = Append(stages, [stage |-> "extractCubemapFaces",
                                             dim |-> dim])
                /\ nextImage' = IF blur THEN nextImage + 1 ELSE nextImage
                /\ created' = IF blur
                               THEN Append(created, [by |-> "blur", dim |-> dim])
                               ELSE created
                /\ IF g.g_type = "KTX"
                   THEN IF exported.ok
                        THEN /\ ktx' = Append(ktx, WriteSkyboxKtx(exported.container, path))
                             /\ files' = IF writable THEN files \cup {path}
                                         ELSE files
                             /\ pc' = "done"
                             /\ exitCode' = 0
                             /\ UNCHANGED err
                        ELSE /\ Exit(1, "Unrecognized compression")
                             /\ UNCHANGED <<ktx, files>>
                   ELSE /\ files' = files \cup saved.written
                        /\ UNCHANGED ktx
                        /\ IF saved.ok
                           THEN pc' = "done" /\ exitCode' = 0 /\ UNCHANGED err
                           ELSE Exit(1, "encode")
    /\ UNCHANGED <<writable, optind, num_args, g, loc, iname, input, images, levels, loop,
                   container, shout, shtext, renders>>

\* One step of a run whose command line is drawn from `options`, whose input
\* name is one of `names` and whose decoded image has one of `sizes`.
Run(options, names, sizes) ==
    \/ \E o \in options : ParseOption(o)
    \/ \E n \in 0..1 : ParseEnd(n)
    \/ \E f \in 0..1 : MainStart(f)
    \/ \E in \in names : MainSetup(in)
    \/ DecodeInvalid
    \/ \E c \in {1, 4} : DecodeChannels(c)
    \/ \E sz \in sizes : Decode(sz[1], sz[2])
    \/ Convert
    \/ GenerateGrid
    \/ Mirror
    \/ MakeSeamless
    \/ GenerateMipmapLevel
    \/ GenerateMipmapsDone
    \/ \E f \in 0..1 : StageSH(f)
    \/ \E f \in 0..1 : StageIsMipmap(f)
    \/ PrefilterBegin
    \/ \E f \in 0..1 : PrefilterLevel(f)
    \/ PrefilterEnd
    \/ \E f \in 0..1 : StageIrradiance(f)
    \/ \E f \in 0..1 : StageExtract(f)

Next == Run(Options, InputNames, InputSizes)

Spec == Init /\ [][Next]_vars

\* Runs with the spherical-harmonics and --deploy options.
OptionsSH ==
    { Option("b", "", 0), Option("i", "", 0), Option("z", "n", MaxBands + 1),
      Option("o", "sh.txt", 0), Option("o", "sh.hdr", 0), Option("d", "", 0),
      Option("t", "ktx", 0), Option("p", "ld", 0), Option("x", "dep", 0),
      Option("s", "", 2) }

InputNamesSH ==
    { [name |-> <<"e", "n", "v">>, exists |-> TRUE],
      [name |-> <<"s", "k", "y">>, exists |-> FALSE] }

InputSizesSH == {<<2, 1>>, <<3, 3>>}

NextSH == Run(OptionsSH, InputNamesSH, InputSizesSH)

SpecSH == Init /\ [][NextSH]_vars

\* Runs with the format, type, mirror, blur and --deploy options.
OptionsOut ==
    { Option("f", "ktx", 0), Option("f", "hdr", 0), Option("t", "cubemap", 0),
      Option("t", "equirect", 0), Option("x", "dep", 0), Option("m", "", 0),
      Option("r", "", 50), Option("P", "ir", 0), Option("e", "ex", 0),
      Option("p", "ld", 0), Option("z", "n", MaxBands + 1),
      Option("o", "sh.hdr", 0), Option("y", "is", 0), Option("s", "", 2),
      Option("s", "", 3) }

NextOut == Run(OptionsOut, InputNamesSH, InputSizesSH)

SpecOut == Init /\ [][NextOut]_vars

\* Runs told to write into a directory that cannot be written to.
OptionsIO ==
    { Option("a", "dfg.h", 0), Option("a", "dfg.png", 0), Option("o", "sh.txt", 0),
      Option("t", "ktx", 0), Option("p", "ld", 0), Option("e", "ex", 0),
      Option("P", "ir", 0), Option("y", "is", 0), Option("s", "", 2) }

InitIO == Start(FALSE)

NextIO == Run(OptionsIO, InputNamesSH, InputSizesSH)

SpecIO == InitIO /\ [][NextIO]_vars

\* Runs of the IBL stages with every output type, the debug images and a
\* sample count of their own.
OptionsIBL ==
    { Option("t", "ktx", 0), Option("t", "equirect", 0),
      Option("t", "octahedron", 0), Option("d", "", 0), Option("p", "ld", 0),
      Option("P", "ir", 0), Option("e", "ex", 0), Option("k", "", 3),
      Option("f", "hdr", 0) }
        \cup { Option("s", "", Pow2(k)) : k \in 0..MaxExp }

NextIBL == Run(OptionsIBL, InputNamesSH, InputSizesSH)

SpecIBL == Init /\ [][NextIBL]_vars

\* The same runs, with the program taking its next step as long as it has
\* one: main is a single thread that nothing suspends.
LiveIBL == Init /\ [][NextIBL]_vars /\ WF_vars(NextIBL)

\* ------------------------------------------------------------------ claims

\* A stage of the given name has been executed.
StageDone(name) == \E k \in 1..Len(stages) : stages[k].stage = name

\* x is 2^k for some k: the claims' reading of "power of two".
PowerOfTwo(x) == \E k \in 0..16 : x = 2 ^ k

\* log2 of a power of two.
Log2(x) == CHOOSE k \in 0..16 : x = 2 ^ k

\* C1: once generateMipmaps has returned, the chain of a base cubemap of
\* power-of-two edge D holds exactly log2(D)+1 levels, level k of edge D/2^k
\* (level 0 of edge D, each level half its predecessor), the last of edge 1.
C1_MipChain ==
    StageDone("generateMipmaps") =>
        LET D == levels[1].dim
        IN  /\ PowerOfTwo(D)
            /\ Len(levels) = Log2(D) + 1
            /\ \A k \in 1..Len(levels) : levels[k].dim * 2 ^ (k - 1) = D
            /\ \A k \in 2..Len(levels) : 2 * levels[k].dim = levels[k - 1].dim
            /\ levels[Len(levels)].dim = 1

\* C1 witness: the chain of a 4-edge base cubemap is complete.
C1_Witness ==
    /\ StageDone("generateMipmaps")
    /\ levels[1].dim = 4
    /\ Len(levels) = 3

\* The layouts C2 names: equirectangular, or a cross whose long side is a
\* power of two.
C2_Supported(w, h) ==
    \/ w = 2 * h
    \/ 3 * w = 4 * h /\ PowerOfTwo(w)
    \/ 3 * h = 4 * w /\ PowerOfTwo(h)

\* The decoded input has been through the layout test.
Converted == iname.exists /\ levels # <<>>
Rejected == pc = "exit" /\ err = "Aspect ratio not supported"

\* C2: a decoded 3-channel input of width w and height h becomes the base
\* cubemap if and only if w = 2h or it is a cross layout with a power-of-two
\* long side; any other size ends the run with the aspect-ratio error and
\* no cubemap.
C2_Conversion ==
    /\ Converted =>
           /\ C2_Supported(input.width, input.height)
           /\ images[1].dim = levels[1].dim
           /\ levels[1].content.kind \in {"crossToCubemap", "equirectangularToCubemap"}
    /\ (pc = "exit" /\ input # NoInput /\ levels = <<>>) =>
           /\ ~C2_Supported(input.width, input.height)
           /\ Rejected
           /\ images = <<>>
    /\ (input # NoInput /\ pc \notin {"convert", "exit"}) => Converted

\* C2 witness: a 12 x 9 image, of cross proportions but with no power-of-two
\* side, has been rejected.
C2_Witness ==
    /\ Rejected
    /\ input = [width |-> 12, height |-> 9]

\* C3 as stated: when the aspect-ratio error is reported no stage at all has
\* run and no file has been written.
C3_Original ==
    Rejected => stages = <<>> /\ files = {}

\* C3 as amended: when the aspect-ratio error is reported, only the DFG LUT
\* (with --ibl-dfg) and the clamp of the decoded image have run, the DFG LUT
\* file is the only file written, and there is no cubemap, coefficient line
\* or container.
C3_Amended ==
    Rejected =>
        /\ \A k \in 1..Len(stages) : stages[k].stage \in {"dfg", "clamp"}
        /\ StageDone("dfg") <=> g.g_dfg
        /\ files = IF g.g_dfg THEN {g.g_dfg_filename} ELSE {}
        /\ levels = <<>> /\ images = <<>>
        /\ shout = <<>> /\ shtext = <<>> /\ ktx = <<>>

\* C3 witness: the error is reported after the DFG LUT was written.
C3_Witness ==
    /\ Rejected
    /\ g.g_dfg
    /\ files = {g.g_dfg_filename}

\* C4 as stated: whatever was converted had a supported aspect ratio and
\* power-of-two dimensions, the long side for a cross and both sides for an
\* equirectangular image.
C4_Original ==
    Converted =>
        /\ C2_Supported(input.width, input.height)
        /\ input.width = 2 * input.height =>
               PowerOfTwo(input.width) /\ PowerOfTwo(input.height)

\* C4 as amended: an input of unsupported aspect ratio, and a 4:3 or 3:4
\* input whose long side is not a power of two, is rejected before
\* crossToCubemap or equirectangularToCubemap runs; an equirectangular input
\* (w = 2h) is converted whatever its dimensions.
C4_Amended ==
    /\ Rejected =>
           /\ ~StageDone("crossToCubemap")
           /\ ~StageDone("equirectangularToCubemap")
           /\ input.width # 2 * input.height
           /\ 3 * input.width = 4 * input.height => ~PowerOfTwo(input.width)
           /\ 3 * input.height = 4 * input.width => ~PowerOfTwo(input.height)
    /\ Converted =>
           \/ input.width = 2 * input.height
           \/ 3 * input.width = 4 * input.height /\ PowerOfTwo(input.width)
           \/ 3 * input.height = 4 * input.width /\ PowerOfTwo(input.height)
    /\ (input # NoInput /\ pc \notin {"convert", "exit"}) => Converted

\* C4 witness: a 6 x 3 equirectangular image, no side a power of two, has
\* been converted.
C4_Witness ==
    /\ Converted
    /\ input = [width |-> 6, height |-> 3]
    /\ StageDone("equirectangularToCubemap")

\* The number of setBlob calls of a container for one triple.
BlobCount(c, mip, layer, face) ==
    Cardinality({ j \in 1..Len(c.blobs) :
        /\ c.blobs[j].mip = mip
        /\ c.blobs[j].layer = layer
        /\ c.blobs[j].face = face })

IsIblKtx(k) == ktx[k].path.name[Len(ktx[k].path.name)] = "_ibl.ktx"

\* C5: every serialized container (_ibl.ktx with log2(size)+1 mips,
\* _skybox.ktx with 1 mip) has had setBlob called exactly once for every
\* (mip, layer 0, face 0..5) its dimensions declare, and for no other triple.
C5_BlobsComplete ==
    \A k \in 1..Len(ktx) :
        LET c == ktx[k].container
        IN  /\ c.numMips = IF IsIblKtx(k) THEN Log2(BaseDim) + 1 ELSE 1
            /\ c.arrayLength = 1
            /\ \A mip \in 0..(c.numMips - 1) : \A face \in 0..5 :
                   BlobCount(c, mip, 0, face) = 1
            /\ \A j \in 1..Len(c.blobs) :
                   /\ c.blobs[j].mip \in 0..(c.numMips - 1)
                   /\ c.blobs[j].layer = 0
                   /\ c.blobs[j].face \in 0..5

\* C5 witness: both containers of a run were serialized, the prefilter's
\* with 3 mip levels.
C5_Witness ==
    /\ Len(ktx) = 2
    /\ IsIblKtx(1)
    /\ ktx[1].container.numMips = 3
    /\ Len(ktx[1].container.blobs) = 18

\* C6: for each KTX output one buffer is allocated, of the length
\* getSerializedLength() gives once every setBlob and setMetadata call has
\* been made, which is the length of the container as serialized, and
\* exactly that many bytes are written.
C6_BufferLength ==
    \A k \in 1..Len(ktx) :
        LET c == ktx[k].container
        IN  /\ ktx[k].allocations = 1
            /\ ktx[k].bufferLength = getSerializedLength(c)
            /\ ktx[k].bufferLength = ktx[k].serialized
            /\ ktx[k].written = ktx[k].bufferLength
            /\ Len(c.blobs) = 6 * c.numMips
            /\ (IsIblKtx(k) /\ g.g_coefficients.kind # "none") =>
                   Len(c.metadata) = 1
            /\ ktx[k].path \in files

\* C6 witness: a prefilter container carrying SH metadata was written.
C6_Witness ==
    /\ Len(ktx) >= 1
    /\ IsIblKtx(1)
    /\ Len(ktx[1].container.metadata) = 1
    /\ Len(ktx[1].container.metadata[1].lines) = 9

\* C7: with a recognized compression string the serialized header has
\* glTypeSize 1, glFormat 0, glBaseInternalFormat RGBA and glInternalFormat
\* the compressor's format tag; with no compression string it has glTypeSize
\* 4 and glFormat = glInternalFormat = glBaseInternalFormat = RGBA.
C7_Header ==
    \A k \in 1..Len(ktx) :
        LET info == ktx[k].container.info
        IN  /\ g.g_compression = "astc_fast_ldr_4x4" =>
                   /\ info.glTypeSize = 1
                   /\ info.glFormat = 0
                   /\ info.glBaseInternalFormat = RGBA
                   /\ info.glInternalFormat =
                          compressTexture("ASTC", BaseDim).format
                   /\ info.glInternalFormat # RGBA
            /\ g.g_compression = "" =>
                   /\ info.glTypeSize = 4
                   /\ info.glFormat = RGBA
                   /\ info.glInternalFormat = RGBA
                   /\ info.glBaseInternalFormat = RGBA
            /\ g.g_compression \in {"astc_fast_ldr_4x4", ""}

\* C7 witness: a compressed container was serialized.
C7_Witness ==
    /\ Len(ktx) >= 1
    /\ g.g_compression = "astc_fast_ldr_4x4"
    /\ ktx[1].container.info.glFormat = 0

\* The files of the stage that reported the unrecognized compression string.
RECURSIVE Contains(_, _)
Contains(seq, x) == seq # <<>> /\ (Head(seq) = x \/ Contains(Tail(seq), x))

C8_StageFiles ==
    { f \in files : Contains(f.name, "_roughness_m") \/ Contains(f.name, "_skybox.ktx")
                    \/ Contains(f.name, "_ibl.ktx") }

\* C8 as stated: an unrecognized compression string aborts the run with a
\* non-zero status, and the stage that detects it has written no file.
C8_Original ==
    err = "Unrecognized compression" =>
        /\ exitCode # 0
        /\ C8_StageFiles = {}

\* C9: once sphericalHarmonics has run with SH output, std::cout holds
\* exactly numBands^2 coefficient lines; for an existing 512 x 256 input
\* with 3-band irradiance SH output and a 256-edge cubemap that is 9 lines,
\* and the mip chain has the 9 levels 256, 128, ..., 1.
C9_ShLines ==
    /\ (StageDone("sphericalHarmonics") /\ g.g_sh_output) =>
           /\ Len(shout) = g.g_sh_compute * g.g_sh_compute
           /\ \A l \in 0..(g.g_sh_compute - 1) : \A m \in (-l)..l :
                  Cardinality({ k \in 1..Len(shout) :
                      shout[k].l = l /\ shout[k].m = m }) = 1
    /\ ( /\ StageDone("sphericalHarmonics")
         /\ iname.exists
         /\ input = [width |-> 512, height |-> 256]
         /\ g.g_sh_output /\ g.g_sh_irradiance /\ g.g_sh_compute = 3
         /\ BaseDim = 256 ) =>
           /\ Len(shout) = 9
           /\ Len(levels) = 9
           /\ \A k \in 1..9 : levels[k].dim = 2 ^ (9 - k)

\* C9 witness: the scenario has run.
C9_Witness ==
    /\ StageDone("sphericalHarmonics")
    /\ iname.exists
    /\ input = [width |-> 512, height |-> 256]
    /\ g.g_sh_output /\ g.g_sh_irradiance /\ g.g_sh_compute = 3
    /\ BaseDim = 256
    /\ Len(shout) = 9

\* What C10 says the name of a missing input generates.
C10_Expected(name) ==
    CASE name = <<"u", "v", "2">> -> Content("generateUVGrid", 2, 2)
      [] name = <<"u", "3">> -> Content("generateUVGrid", 3, 1)
      [] name = <<"v", "2">> -> Content("generateUVGrid", 1, 2)
      [] name = <<"b", "r", "d", "f", "1">> -> Content("brdf", 1, 0)
      [] OTHER -> Content("generateUVGrid", 1, 1)

\* C10 as stated: the cubemap generated for a missing input has the default
\* size.
C10_Original ==
    (~iname.exists /\ levels # <<>>) =>
        /\ levels[1].content = C10_Expected(iname.name)
        /\ levels[1].dim = IBL_DEFAULT_SIZE

\* C10 as amended: for a missing input whose basename matches none of uvN,
\* uN, vN, brdfN the base cubemap is a UV grid of frequency 1 x 1, uvN gives
\* (N, N), uN gives (N, 1), vN gives (1, N); its edge is the --size value
\* when one is given and the default 256 otherwise; the run goes on to the
\* mirror step without an error.
C10_Amended ==
    /\ (~iname.exists /\ levels # <<>>) =>
           /\ levels[1].content = C10_Expected(iname.name)
           /\ levels[1].dim = IF g.g_output_size # 0 THEN g.g_output_size
                              ELSE IBL_DEFAULT_SIZE
    /\ (~iname.exists /\ pc = "mirror") =>
           /\ Len(levels) = 1
           /\ exitCode = -1 /\ err = ""

\* C10 witness: a 4-edge 1 x 1 grid was generated for the missing "sky".
C10_Witness ==
    /\ ~iname.exists
    /\ iname.name = <<"s", "k", "y">>
    /\ levels # <<>>
    /\ levels[1].dim = 4
    /\ levels[1].content = Content("generateUVGrid", 1, 1)

\* Every coefficient line of a sequence outputSh (or the metadata writer)
\* produced read an index inside the array it was given.
LinesInside(lines) == \A n \in 1..Len(lines) : lines[n].valid

\* C11 as stated: the coefficient array sphericalHarmonics produced has
\* exactly g_sh_compute^2 entries, and every index read from it by outputSh,
\* by the render call and by the KTX metadata writer lies inside the array.
C11_Original ==
    /\ g.g_coefficients.kind # "none" =>
           g.g_coefficients.count = g.g_sh_compute * g.g_sh_compute
    /\ LinesInside(shout)
    /\ LinesInside(shtext)
    /\ \A r \in renders : r.reads <= r.count
    /\ \A k \in 1..Len(ktx) :
           \A j \in 1..Len(ktx[k].container.metadata) :
               LinesInside(ktx[k].container.metadata[j].lines)

\* C12: coefficients computed by computeIrradianceSH3Bands are rendered only
\* by renderPreScaledSH3Bands, and coefficients computed by computeSH only by
\* renderSH.
C12_NotMixed ==
    \A r \in renders :
        /\ r.coeffs \in {"computeIrradianceSH3Bands", "computeSH"}
        /\ r.coeffs = "computeIrradianceSH3Bands" <=> r.by = "renderPreScaledSH3Bands"
        /\ r.coeffs = "computeSH" <=> r.by = "renderSH"

\* C12 witness: one run rendered pre-scaled coefficients and general ones.
C12_Witness ==
    /\ \E r \in renders : r.by = "renderPreScaledSH3Bands"
    /\ \E r \in renders : r.by = "renderSH"

\* The lines are in index order: (0, 0) first, then m ascending within a
\* band and the bands ascending.
InIndexOrder(lines) ==
    /\ lines # <<>> => lines[1].l = 0 /\ lines[1].m = 0
    /\ \A n \in 1..(Len(lines) - 1) :
           \/ lines[n + 1].l = lines[n].l /\ lines[n + 1].m = lines[n].m + 1
           \/ /\ lines[n].m = lines[n].l
              /\ lines[n + 1].l = lines[n].l + 1
              /\ lines[n + 1].m = -lines[n + 1].l

\* C13: the _ibl.ktx of a run that computed SH carries exactly one metadata
\* entry, of key "sh", with g_sh_compute^2 coefficient lines in index order;
\* without SH it carries no metadata; the _skybox.ktx never carries any.
C13_ShMetadata ==
    \A k \in 1..Len(ktx) :
        LET md == ktx[k].container.metadata
        IN  IF IsIblKtx(k) /\ g.g_sh_compute # 0
            THEN /\ StageDone("sphericalHarmonics")
                 /\ Len(md) = 1
                 /\ md[1].key = "sh"
                 /\ Len(md[1].lines) = g.g_sh_compute * g.g_sh_compute
                 /\ InIndexOrder(md[1].lines)
            ELSE md = <<>>

\* C13 witness: a 4-band run wrote 16 lines under "sh", and a deployed run
\* wrote a skybox container.
C13_Witness ==
    /\ Len(ktx) >= 1
    /\ IsIblKtx(1)
    /\ g.g_sh_compute = 4
    /\ Len(ktx[1].container.metadata) = 1
    /\ Len(ktx[1].container.metadata[1].lines) = 16

\* The run has ended.
Ended == pc \in {"done", "exit"}

\* An output file the run was to write through a std::ofstream of its own
\* (the DFG text file, the SH text file, a KTX container) was not written.
OutputNotWritten ==
    \/ StageDone("dfg") /\ isTextFile(g.g_dfg_filename) /\ g.g_dfg_filename \notin files
    \/ /\ StageDone("sphericalHarmonics")
       /\ g.g_sh_file = "SH_TEXT"
       /\ g.g_sh_filename \notin files
    \/ \E k \in 1..Len(ktx) : ktx[k].path \notin files

\* C14 as stated: a run whose input exists but cannot be decoded, or one of
\* whose output files cannot be written, ends with a non-zero exit status.
C14_Original ==
    (Ended /\ (err \in {"Unable to open image", "encode"} \/ OutputNotWritten)) =>
        exitCode # 0

FormatKtx == Option("f", "ktx", 0)
FormatHdr == Option("f", "hdr", 0)

\* handleCommandLineArgments returns in this step.
ParsingEnds == pc = "parse" /\ pc' = "main"

\* C15: when --format=ktx is among the options, in any position and with or
\* without a --type, the output type is KTX once parsing has ended; reading
\* --format=ktx leaves g_format as it was, so that the format after parsing
\* is the one another --format option set, or the default.
C15_FormatKtx ==
    [][ /\ (ParsingEnds /\ FormatKtx \in loc.argv) =>
               /\ g'.g_type = "KTX"
               /\ g'.g_format = IF FormatHdr \in loc.argv THEN "HDR" ELSE "PNG"
        /\ ( /\ pc = "parse" /\ pc' = "parse"
             /\ FormatKtx \notin loc.argv
             /\ FormatKtx \in loc'.argv ) =>
               /\ g'.g_format = g.g_format
               /\ g'.g_type = g.g_type ]_vars

\* C15 witness: parsing has ended with type KTX (which only --format=ktx
\* gives in these runs), format HDR and --deploy.
C15_Witness ==
    /\ pc = "main"
    /\ g.g_type = "KTX"
    /\ g.g_format = "HDR"
    /\ g.g_deploy

\* images[0] and levels[0] are a raster and the cubemap viewing it, of the
\* same edge.
BasePair(imgs, lvls) ==
    /\ imgs # <<>> /\ lvls # <<>>
    /\ lvls[1].image = imgs[1].id
    /\ lvls[1].dim = imgs[1].dim

\* C16: the base cubemap is mirrored once when --no-mirror is not among the
\* options and not at all when it is; before and after, images[0] and
\* levels[0] are a matching pair, and no later step mirrors again.
C16_Mirror ==
    [][ /\ ParsingEnds => (g'.g_mirror <=> Option("m", "", 0) \in loc.argv)
        /\ pc \in {"main", "setup", "input", "convert"} => g'.g_mirror = g.g_mirror
        /\ (pc = "mirror" /\ pc' # "mirror") =>
               /\ BasePair(images, levels)
               /\ levels[1].mirrored = 0
               /\ levels'[1].mirrored = IF g.g_mirror THEN 0 ELSE 1
               /\ levels'[1].dim = levels[1].dim
               /\ BasePair(images', levels')
        /\ (levels # <<>> /\ pc \notin {"input", "convert", "mirror"}) =>
               /\ levels'[1].mirrored = levels[1].mirrored
               /\ BasePair(images', levels') ]_vars

\* C16 witness: --no-mirror was given and the base cubemap went on
\* unmirrored.
C16_Witness ==
    /\ pc = "seamless"
    /\ ~g.g_mirror
    /\ levels[1].mirrored = 0
    /\ BasePair(images, levels)

\* What a finished --deploy=dep run has done.
Deployed ==
    /\ g.g_sh_compute = 3 /\ g.g_sh_shader /\ g.g_sh_irradiance
    /\ StageDone("sphericalHarmonics")
    /\ Len(shtext) = 9
    /\ \A n \in 1..Len(shtext) : shtext[n].coeffs = "computeIrradianceSH3Bands"
    /\ Path("dep", iname.name, <<"sh.txt">>) \in files
    /\ StageDone("extractCubemapFaces")
    /\ \E f \in files :
           /\ f.dir = "dep" /\ f.sub = iname.name
           /\ \/ f.name[1] \in {"px", "skybox"}
              \/ f.name = iname.name \o <<"_skybox.ktx">>
    /\ StageDone("iblRoughnessPrefilter done")
    /\ \E f \in files :
           /\ f.dir = "dep" /\ f.sub = iname.name
           /\ \/ f.name[1] = "m" /\ f.name[2] = "0"
              \/ f.name = iname.name \o <<"_ibl.ktx">>
    /\ \A f \in files : f.dir \notin {"ex", "ld", ""} /\ f.sub = iname.name

\* C17: with --deploy=<dir> and whatever SH, extract and prefilter options
\* besides, a run that completes has computed the pre-scaled 3-band
\* irradiance SH and written it to <dir>/<basename>/sh.txt, extracted the
\* faces and run the roughness prefilter, all into <dir>/<basename>; parsing
\* leaves the format RGBM unless a --format was given and the type FACES
\* unless a type was given.
C17_Deploy ==
    [][ /\ (ParsingEnds /\ g.g_deploy) =>
               /\ (\A o \in loc.argv : o.opt # "f") => g'.g_format = "RGBM"
               /\ (\A o \in loc.argv : o.opt # "t" /\ o # FormatKtx) =>
                      g'.g_type = "FACES"
        /\ (pc \notin {"parse", "done"} /\ g.g_deploy) =>
               g'.g_format = g.g_format /\ g'.g_type = g.g_type
        /\ (pc # "done" /\ pc' = "done" /\ g.g_deploy) => Deployed' ]_vars

\* C17 witness: a deployed run has completed, with the default format and
\* type, its faces where --deploy says and 9 coefficient lines printed.
C17_Witness ==
    /\ pc = "done"
    /\ g.g_deploy
    /\ g.g_format = "RGBM" /\ g.g_type = "FACES"
    /\ Path("dep", iname.name, <<"sh.txt">>) \in files
    /\ g.g_extract_dir = "dep"
    /\ Len(shout) = 9

\* The DFG LUT stage of a run: its edge is --size, or 128.
DfgStage ==
    [stage |-> "dfg",
     dim |-> IF g.g_output_size # 0 THEN g.g_output_size ELSE 128]

\* C18: without --ibl-dfg and without an input name, usage is printed, the
\* exit status is 1 and nothing is written; with --ibl-dfg and no input
\* name, the DFG LUT of edge --size (128 by default) is all that is
\* generated and the run returns 0 (1 if the LUT image cannot be encoded);
\* with both, the DFG LUT comes first and the cubemap pipeline follows; the
\* DFG LUT is never generated later than first.
C18_Main ==
    [][ /\ (pc = "main" /\ ~g.g_dfg /\ num_args < 1) =>
               /\ pc' = "exit" /\ exitCode' = 1 /\ err' = "usage"
               /\ files' = {} /\ stages' = <<>> /\ created' = <<>>
        /\ (pc = "main" /\ g.g_dfg /\ num_args < 1) =>
               /\ pc' = "exit"
               /\ exitCode' = 0 \/ (exitCode' = 1 /\ err' = "encode")
               /\ stages' = <<DfgStage>>
               /\ files' = {g.g_dfg_filename}
               /\ created' = <<>> /\ levels' = <<>> /\ ktx' = <<>> /\ shout' = <<>>
        /\ (pc = "main" /\ g.g_dfg /\ num_args >= 1) =>
               /\ stages' = <<DfgStage>>
               /\ pc' = "setup" \/ (exitCode' = 1 /\ err' = "encode")
        /\ (pc = "main" /\ ~g.g_dfg /\ num_args >= 1) =>
               pc' = "setup" /\ stages' = <<>>
        /\ (pc \notin {"parse", "main"}) =>
               /\ Len(stages') >= Len(stages)
               /\ \A k \in (Len(stages) + 1)..Len(stages') : stages'[k].stage # "dfg"
        /\ (pc \notin {"parse", "main", "exit"}) => num_args >= 1 ]_vars

\* C18 witness: a run with --ibl-dfg, --size=4 and no input name has
\* returned 0 with the LUT of edge 4 written.
C18_Witness ==
    /\ pc = "exit" /\ exitCode = 0
    /\ g.g_dfg /\ num_args = 0
    /\ stages = <<[stage |-> "dfg", dim |-> 4]>>
    /\ files = {g.g_dfg_filename}

\* The functions that created a cubemap in this run.
CreatedBy == { created[k].by : k \in 1..Len(created) }

\* C19: every cubemap created in a run has a power-of-two edge; the first
\* one has the base edge, which is the --size value or 256 without one; a
\* --size that is not a power of two ends the run in option parsing, before
\* any cubemap is created.
C19_PowerOfTwo ==
    /\ \A k \in 1..Len(created) : PowerOfTwo(created[k].dim)
    /\ created # <<>> =>
           /\ created[1].dim = BaseDim
           /\ BaseDim = (IF g.g_output_size # 0 THEN g.g_output_size ELSE 256)
    /\ err = "output size must be a power of two" =>
           pc = "exit" /\ created = <<>> /\ stages = <<>> /\ files = {}

\* C19 witness: with --size=2 the base level, its mip level of edge 1 and a
\* blur target have been created.
C19_Witness ==
    /\ g.g_output_size = 2
    /\ {"equirectangularToCubemap", "generateMipmaps", "blur"} \subseteq CreatedBy
    /\ \E k \in 1..Len(created) : created[k].dim = 1

\* The place of a stage in main (lines 417-625).
StageRank(name) ==
    CASE name = "dfg" -> 0
      [] name = "clamp" -> 1
      [] name \in {"crossToCubemap", "equirectangularToCubemap",
                   "generateUVGrid", "brdf"} -> 2
      [] name = "mirror" -> 3
      [] name = "makeSeamless" -> 4
      [] name = "generateMipmaps" -> 5
      [] name = "sphericalHarmonics" -> 6
      [] name = "iblMipmapPrefilter" -> 7
      [] name = "iblRoughnessPrefilter" -> 8
      [] name = "iblRoughnessPrefilter done" -> 9
      [] name = "iblDiffuseIrradiance" -> 10
      [] name = "extractCubemapFaces" -> 11
      [] OTHER -> 12

\* The chain holds every level from the base edge down to 1.
MipChainComplete ==
    /\ levels # <<>>
    /\ Len(levels) = Log2(levels[1].dim) + 1
    /\ \A k \in 1..Len(levels) : levels[k].dim * (2 ^ (k - 1)) = levels[1].dim

\* Every face of every mip of the container has been set.
ContainerFilled(c) ==
    \A mip \in 0..(c.numMips - 1) : \A face \in 0..5 : BlobCount(c, mip, 0, face) = 1

\* C20: the stages of a run execute in the order base cubemap, mirror,
\* makeSeamless, mip chain, SH, importance-sampling mipmaps, roughness
\* prefilter, diffuse irradiance, face extraction, each at most once; no
\* stage after the mip chain has started unless the base cubemap was
\* obtained and made seamless and the chain is complete; a container is
\* serialized only once the stage that fills it has set all its faces, and
\* never while the prefilter loop is still running.
C20_StageOrder ==
    /\ \A j, k \in 1..Len(stages) :
           j < k => StageRank(stages[j].stage) < StageRank(stages[k].stage)
    /\ \A k \in 1..Len(stages) : StageRank(stages[k].stage) < 12
    /\ (\/ \E k \in 1..Len(stages) : StageRank(stages[k].stage) >= 6
        \/ pc \in {"sh", "ismipmap", "prefilter", "prefilter_loop",
                   "irradiance", "extract", "done"}) =>
           /\ \E k \in 1..Len(stages) : StageRank(stages[k].stage) = 2
           /\ StageDone("makeSeamless")
           /\ StageDone("generateMipmaps")
           /\ MipChainComplete
    /\ \A k \in 1..Len(ktx) :
           /\ ContainerFilled(ktx[k].container)
           /\ IF IsIblKtx(k) THEN StageDone("iblRoughnessPrefilter done")
              ELSE StageDone("extractCubemapFaces")
    /\ pc = "prefilter_loop" => \A k \in 1..Len(ktx) : ~IsIblKtx(k)

\* C20 witness: a run has gone through the mirror, the chain of a base of
\* edge 2, the roughness prefilter, the irradiance and the extraction, and
\* has written both containers.
C20_Witness ==
    /\ pc = "done"
    /\ Len(levels) = 2
    /\ StageDone("mirror")
    /\ StageDone("iblRoughnessPrefilter done")
    /\ StageDone("iblDiffuseIrradiance")
    /\ StageDone("extractCubemapFaces")
    /\ Len(ktx) = 2

\* The face files <tag><face><ext> in <dir>/<basename>.
FaceFiles(dir, tag) ==
    { Path(dir, iname.name, tag \o <<Faces[j], chooseExtension(g.g_format)>>) :
          j \in 1..6 }

\* The debug images of a stage, written with --debug only.
DebugFiles(dir, tags) ==
    IF g.g_debug
    THEN { Path(dir, iname.name, iname.name \o <<t, ".hdr">>) : t \in tags }
    ELSE {}

\* The level the prefilter loop is about to filter.
PrefilterLevelNow == ctz(BaseDim) - loop.i

\* C21 as stated: every file the roughness prefilter writes is a face file
\* m<mip>_<face> or <basename>_ibl.ktx (or a debug image), every file the
\* diffuse irradiance writes is i_<face> (or a debug image), the skybox
\* container is <basename>_skybox.ktx, each under <dir>/<basename>.
C21_Original ==
    [][ /\ pc = "prefilter_loop" =>
               files' \ files \subseteq
                   FaceFiles(g.g_prefilter_dir,
                             <<"m", ToString(PrefilterLevelNow), "_">>)
                   \cup {Path(g.g_prefilter_dir, iname.name,
                              iname.name \o <<"_ibl.ktx">>)}
                   \cup { Path(g.g_prefilter_dir, iname.name,
                               iname.name \o <<"_roughness_m",
                                               ToString(PrefilterLevelNow), ".hdr">>) }
        /\ pc = "irradiance" =>
               files' \ files \subseteq
                   FaceFiles(g.g_ibl_irradiance_dir, <<"i_">>)
                   \cup DebugFiles(g.g_ibl_irradiance_dir,
                                   {"_diffuse_irradiance", "_diffuse_irradiance_sh"})
        /\ (pc = "extract" /\ g.g_type = "KTX") =>
               files' \ files \subseteq
                   {Path(g.g_extract_dir, iname.name,
                         iname.name \o <<"_skybox.ktx">>)} ]_vars

\* The files one turn of the prefilter loop writes for its level, by type.
C21_LevelFiles ==
    LET dir == g.g_prefilter_dir
        mip == ToString(PrefilterLevelNow)
    IN  (IF g.g_debug
         THEN {Path(dir, iname.name, iname.name \o <<"_roughness_m", mip, ".hdr">>)}
         ELSE {})
        \cup
        (CASE g.g_type = "KTX" -> {}
           [] g.g_type \in {"EQUIRECT", "OCTAHEDRON"} ->
                {Path(dir, iname.name, <<"m", mip, chooseExtension(g.g_format)>>)}
           [] OTHER -> FaceFiles(dir, <<"m", mip, "_">>))

\* C21 as amended: with the faces type a turn of the prefilter loop writes
\* the six files m<mip>_<face>, with the equirect and octahedron types the
\* single file m<mip>, with the KTX type no image, and the loop's end writes
\* <basename>_ibl.ktx with the KTX type and nothing otherwise; the diffuse
\* irradiance writes the six files i_<face> whatever the type; the
\* extraction writes <basename>_skybox.ktx with the KTX type; --debug adds
\* <basename>_roughness_m<mip>.hdr and <basename>_diffuse_irradiance[_sh].hdr;
\* each file lies in <dir>/<basename>, and a step that does not end the run
\* has written all of its files.
C21_Amended ==
    [][ /\ (pc = "prefilter_loop" /\ loop.i >= 0) =>
               /\ files' \ files \subseteq C21_LevelFiles
               /\ pc' # "exit" => C21_LevelFiles \subseteq files'
        /\ (pc = "prefilter_loop" /\ loop.i < 0) =>
               files' = files \cup
                   (IF g.g_type = "KTX"
                    THEN {Path(g.g_prefilter_dir, iname.name,
                               iname.name \o <<"_ibl.ktx">>)}
                    ELSE {})
        /\ (pc = "irradiance" /\ g.g_ibl_irradiance) =>
               /\ files' \ files \subseteq
                      FaceFiles(g.g_ibl_irradiance_dir, <<"i_">>)
                      \cup DebugFiles(g.g_ibl_irradiance_dir,
                               {"_diffuse_irradiance", "_diffuse_irradiance_sh"})
               /\ pc' # "exit" =>
                      FaceFiles(g.g_ibl_irradiance_dir, <<"i_">>) \subseteq files'
        /\ (pc = "extract" /\ g.g_extract_faces /\ g.g_type = "KTX"
                /\ pc' # "exit") =>
               files' = files \cup {Path(g.g_extract_dir, iname.name,
                                         iname.name \o <<"_skybox.ktx">>)} ]_vars

\* C21 witness: a run of type KTX on input env has written ld/env/env_ibl.ktx,
\* the irradiance face ir/env/i_px and ex/env/env_skybox.ktx.
C21_Witness ==
    /\ pc = "done"
    /\ iname.name = <<"e", "n", "v">>
    /\ Path("ld", iname.name, <<"e", "n", "v", "_ibl.ktx">>) \in files
    /\ Path("ir", iname.name, <<"i_", "px", ".png">>) \in files
    /\ Path("ex", iname.name, <<"e", "n", "v", "_skybox.ktx">>) \in files

\* C22: level 0 is made seamless exactly once, before mip generation; each
\* level k >= 1 is made seamless exactly once, was downsampled from level
\* k-1, and level k-1 was already seamless when it was read; so every level
\* the SH, IBL and extraction stages read is seamless; each destination of
\* the roughness prefilter has been made seamless once when it is saved or
\* exported.
C22_Seamless ==
    /\ (levels # <<>> /\ ~StageDone("makeSeamless")) =>
           Len(levels) = 1 /\ levels[1].seamless = 0
    /\ StageDone("makeSeamless") => levels[1].seamless = 1
    /\ \A k \in 2..Len(levels) :
           /\ levels[k].seamless = 1
           /\ levels[k].src = k - 2
           /\ levels[k].srcSeamless = 1
    /\ (\E k \in 1..Len(stages) : StageRank(stages[k].stage) >= 6) =>
           \A k \in 1..Len(levels) : levels[k].seamless = 1
    /\ \A j \in 1..Len(loop.log) : loop.log[j].seamless = 1

\* C22 witness: the prefilter has filtered three destinations from a chain of
\* three levels.
C22_Witness ==
    /\ pc = "prefilter_loop"
    /\ Len(levels) = 3
    /\ Len(loop.log) = 3

\* C23 as stated: for every power-of-two size, level k of the numLevels =
\* log2(size)+1 levels of the roughness prefilter is filtered with the
\* linear roughness (k/(numLevels-1))^2, a number: 0 at level 0, 1 at the
\* last level, strictly increasing with the level.
C23_Original ==
    \A j \in 1..Len(loop.log) :
        LET e == loop.log[j]
            numLevels == Log2(BaseDim) + 1
        IN  /\ e.level = j - 1
            /\ e.lodDen # 0
            /\ e.lodNum * (numLevels - 1) = (j - 1) * e.lodDen
            /\ j = 1 => e.lodNum = 0
            /\ j = numLevels => e.lodNum = e.lodDen
            /\ j > 1 => e.lodNum * loop.log[j - 1].lodDen
                            > loop.log[j - 1].lodNum * e.lodDen

\* The same for the sizes of two and more, where numLevels - 1 is not zero.
C23_FromSizeTwo == BaseDim >= 2 => C23_Original

\* C24: in the roughness prefilter levels 0 and 1 use the configured sample
\* count n and each level k >= 2 uses n * 2^(k-1), twice the count of level
\* k-1, so the count never decreases with the level.
C24_Samples ==
    \A j \in 1..Len(loop.log) :
        LET e == loop.log[j]
            n == g.g_num_samples
        IN  /\ e.level = j - 1
            /\ e.numSamples = IF e.level < 2 THEN n ELSE n * (2 ^ (e.level - 1))
            /\ j > 1 => e.numSamples >= loop.log[j - 1].numSamples
            /\ e.level >= 2 => e.numSamples = 2 * loop.log[j - 1].numSamples

\* C24 witness: with --ibl-samples=3 and --size=4 the levels 0, 1 and 2 have
\* been filtered with 3, 3 and 6 samples.
C24_Witness ==
    /\ g.g_num_samples = 3
    /\ Len(loop.log) = 3
    /\ loop.log[1].numSamples = 3
    /\ loop.log[2].numSamples = 3
    /\ loop.log[3].numSamples = 6

\* The lines visit the indices 0..N^2-1 once each and in increasing order,
\* each index being l^2 + l + m of its line's band l < N and order m in -l..l.
VisitsInOrder(lines, N) ==
    /\ Len(lines) = N * N
    /\ \A n \in 1..Len(lines) :
           /\ lines[n].i = n - 1
           /\ lines[n].l \in 0..(N - 1)
           /\ lines[n].m \in (-lines[n].l)..lines[n].l
           /\ lines[n].i = lines[n].l * lines[n].l + lines[n].l + lines[n].m

\* C25: the enumeration l from 0 to N-1, m from -l to l, with index(l, m) =
\* l^2 + l + m, visits every index 0..N^2-1 exactly once and in strictly
\* increasing order, for every band count N from 1 to MaxBands + 2 and for
\* the lines a run prints to std::cout, writes to the SH text file and
\* embeds in the KTX metadata.
C25_IndexOrder ==
    /\ \A N \in 1..(MaxBands + 2) :
           VisitsInOrder(outputSh(computeSH(N, FALSE), N), N)
    /\ shout # <<>> => VisitsInOrder(shout, g.g_sh_compute)
    /\ shtext # <<>> => VisitsInOrder(shtext, g.g_sh_compute)
    /\ \A k \in 1..Len(ktx) :
           \A j \in 1..Len(ktx[k].container.metadata) :
               VisitsInOrder(ktx[k].container.metadata[j].lines, g.g_sh_compute)

\* C25 witness: a 4-band run has printed 16 lines, the last one of band 3,
\* order 3 and index 15, and written as many to the SH text file.
C25_Witness ==
    /\ Len(shout) = 16
    /\ shout[16].l = 3 /\ shout[16].m = 3 /\ shout[16].i = 15
    /\ Len(shtext) = 16

\* The coefficients sphericalHarmonics computes for the requested
\* configuration (lines 646-650).
RequestedSh ==
    IF g.g_sh_shader THEN computeIrradianceSH3Bands
    ELSE computeSH(g.g_sh_compute, g.g_sh_irradiance)

\* C26 as stated: the coefficients stashed at the end of sphericalHarmonics
\* are those computed for the requested configuration, and the lines
\* embedded in the KTX "sh" metadata are the lines outputSh prints for them.
C26_Original ==
    /\ g.g_coefficients.kind # "none" => g.g_coefficients = RequestedSh
    /\ \A k \in 1..Len(ktx) :
           \A j \in 1..Len(ktx[k].container.metadata) :
               /\ ktx[k].container.metadata[j].lines
                      = outputSh(RequestedSh, g.g_sh_compute)
               /\ g.g_sh_output => ktx[k].container.metadata[j].lines = shout

\* The same for the runs without --debug.
C26_WithoutDebug == ~g.g_debug => C26_Original

\* C27: in an uncompressed KTX output pixelWidth = pixelHeight = the edge of
\* the level-0 cubemap exported, the blobs were set mip level outer and face
\* inner, the faces in the order +X, -X, +Y, -Y, +Z, -Z, and each of the 6
\* blobs of mip level k has 4 * (pixelWidth / 2^k)^2 bytes.
C27_Blobs ==
    \A k \in 1..Len(ktx) :
        LET c == ktx[k].container
            w == c.info.pixelWidth
        IN  g.g_compression = "" =>
                /\ w = c.info.pixelHeight
                /\ w = BaseDim
                /\ w = levels[1].dim
                /\ Len(c.blobs) = 6 * c.numMips
                /\ \A n \in 1..Len(c.blobs) :
                       LET b == c.blobs[n]
                       IN  /\ b.mip = (n - 1) \div 6
                           /\ b.layer = 0
                           /\ b.face = (n - 1) % 6
                           /\ b.data = Faces[b.face + 1]
                           /\ w % (2 ^ b.mip) = 0
                           /\ b.size = 4 * (w \div (2 ^ b.mip)) * (w \div (2 ^ b.mip))

\* C27 witness: an uncompressed prefilter container of edge 4 was serialized
\* with 18 blobs, the last one the -Z face of mip level 2, of 4 bytes.
C27_Witness ==
    /\ Len(ktx) >= 1
    /\ IsIblKtx(1)
    /\ g.g_compression = ""
    /\ ktx[1].container.info.pixelWidth = 4
    /\ Len(ktx[1].container.blobs) = 18
    /\ ktx[1].container.blobs[18].data = "nz"
    /\ ktx[1].container.blobs[18].size = 4

\* C28: once the base cubemap is obtained, images and levels have the same
\* length, levels[k] is the view over images[k], an image of its own, with
\* edge baseDim / 2^k, also after the mirror swap; the roughness prefilter
\* has as many levels as the mip chain, and its destination of level k has
\* the edge of levels[k].
C28_Levels ==
    /\ Len(images) = Len(levels)
    /\ \A k \in 1..Len(levels) :
           /\ levels[k].image = images[k].id
           /\ levels[k].dim = images[k].dim
           /\ levels[k].dim * (2 ^ (k - 1)) = BaseDim
           /\ \A j \in 1..Len(levels) : j # k => images[j].id # images[k].id
    /\ (pc \in {"mirror", "seamless"} \/ StageDone("makeSeamless")) => Len(levels) >= 1
    /\ pc = "prefilter_loop" =>
           /\ container.numMips = Len(levels)
           /\ Len(loop.log) <= Len(levels)
           /\ loop.i = Len(levels) - 1 - Len(loop.log)
    /\ \A j \in 1..Len(loop.log) :
           /\ loop.log[j].level = j - 1
           /\ loop.log[j].dim = levels[j].dim
    /\ \A n \in 1..Len(stages) :
           stages[n].stage = "iblRoughnessPrefilter done" =>
               stages[n].dim = Len(levels)

\* C28 witness: after the mirror swap and a chain of three levels, the
\* prefilter has filtered its three levels.
C28_Witness ==
    /\ StageDone("mirror")
    /\ levels[1].mirrored = 1
    /\ Len(levels) = 3
    /\ StageDone("iblRoughnessPrefilter done")

\* The loops run as often as the edge allows: the mip loop has halved the
\* edge once per turn, has left at dim = 1 after log2(dim) turns, and the
\* prefilter loop has left after log2(size) + 1 turns.
C29_Turns ==
    /\ pc = "mips" =>
           /\ loop.dim >= 1
           /\ loop.dim * (2 ^ loop.mipLevel) = BaseDim
    /\ pc = "prefilter_loop" => loop.i >= -1
    /\ \A n \in 1..Len(stages) :
           /\ stages[n].stage = "generateMipmaps" =>
                  stages[n].dim = Log2(BaseDim)
           /\ stages[n].stage = "iblRoughnessPrefilter done" =>
                  stages[n].dim = Log2(BaseDim) + 1
    /\ Ended => exitCode \in {0, 1}

\* C29: every run terminates: the mip loop ends after exactly log2(dim)
\* turns, the prefilter loop after log2(size) + 1 turns, and every run
\* eventually returns from main or ends through an exit call.
C29_Terminates == []C29_Turns /\ <>Ended

\* C29 witness: a run of base edge 4 has returned from main after 2 turns of
\* the mip loop and 3 turns of the prefilter loop.
C29_Witness ==
    /\ pc = "done"
    /\ BaseDim = 4
    /\ \E n \in 1..Len(stages) :
           stages[n].stage = "generateMipmaps" /\ stages[n].dim = 2
    /\ \E n \in 1..Len(stages) :
           stages[n].stage = "iblRoughnessPrefilter done" /\ stages[n].dim = 3

====
